---- MODULE Spec2Model ----
(***************************************************************************)
(* Calendar week view (src/src/components/Calendar.tsx) and meal-plan      *)
(* title parser (src/src/components/MealPlan.tsx, Dashboard.tsx).          *)
(*                                                                         *)
(* Strings that cross a parsing, formatting or comparison step are         *)
(* sequences of one-character strings, so that parseISO, format,           *)
(* localeCompare, trim, toLowerCase and the meal regular expression are    *)
(* computed character by character.  A JavaScript Date is its timestamp,   *)
(* in minutes since 2024-01-01T00:00Z; the host time zone is a fixed UTC   *)
(* offset `tz` (no daylight-saving transitions inside the modelled days).  *)
(* An absent string field (undefined) and the empty string are both the    *)
(* empty sequence: every test the code applies to them is a truthiness     *)
(* test, which does not tell them apart.                                   *)
(***************************************************************************)
EXTENDS Integers, Sequences, FiniteSets, Bags, TLC

VARIABLES
    tz,                   \* host UTC offset in minutes (local = UTC + tz)
    upstream,             \* events the calendar-events function will return
    events,               \* Calendar: useState events
    selectedDate,         \* Calendar: useState selectedDate (timestamp)
    showCalendarDropdown, \* Calendar: useState showCalendarDropdown
    loading,              \* Calendar: useState loading
    eventsByDay,          \* Calendar: eventsByDay as left by the last render
    thrown,               \* components whose render threw (React unmounted them)
    mealEvent,            \* MealPlan: the event handed to parseMeal
    parsed,               \* MealPlan / Dashboard: what parseMeal returned
    calEvents,            \* Dashboard: useState calEvents
    dashLoaded,           \* Dashboard: loadCompactCalendar has resolved
    dashEventsByDay,      \* Dashboard: the memoized eventsByDay after the last render
    feed,                 \* the VEVENTs of the meal-plan iCalendar feed
    mealSelectedDate,     \* MealPlan: useState selectedDate (timestamp)
    mealEvents,           \* MealPlan: useState events
    mealLoaded,           \* MealPlan: loadMealEvents has resolved
    mealEventsByDay,      \* MealPlan: eventsByDay as left by the last render
    request,              \* serverless function: the request being handled
    pc,                   \* serverless function: where the handler stands
    user,                 \* serverless function: what supabase.auth.getUser returned
    fetched,              \* serverless function: upstream fetches issued so far
    response,             \* serverless function: status code returned (0: none yet)
    policies,             \* database: the row-level-security policy set in force
    access,               \* database: the last statement a signed-in user ran
    calendars,            \* Calendar: useState calendars
    selectedCalendarIds,  \* Calendar: useState selectedCalendarIds
    session,              \* Calendar: the session prop is present
    error,                \* Calendar: useState error ("none": null)
    preferencesLoaded,    \* Calendar: useState preferencesLoaded
    isInitialLoadRef,     \* Calendar: isInitialLoadRef.current
    calls,                \* Calendar: loadCalendarEvents calls awaiting a response
    effects,              \* Calendar: passive effects of the last commit not yet run
    saveTimer,            \* Calendar: the auto-save effect's pending 500 ms timer
    refTimer,             \* Calendar: the pending 100 ms timer that clears the ref
    listed,               \* the calendars Google lists for the account
    profile,              \* database: profiles.default_calendar_ids of the user
    userChanged,          \* history: a handler has changed the selection
    wrote,                \* history: saveUserPreferences has updated the profile
    clicks,               \* history: clicks that started a load
    listRequest,          \* calendar-events: the listEvents request body
    googleAnswers,        \* calendar-events: how Google answers, per calendar id
    listResponse,         \* calendar-events: what the listEvents branch returned
    today,                \* Sports: new Date() at mount, as month and year
    seasons,              \* Sports: the memoized seasonOptions
    sportRows,            \* database: the sports rows of one child, newest first
    milesSports,          \* Sports: useState milesSports
    page,                 \* which tracker is mounted: "car" or "health"
    table,                \* database: the rows of car_maintenance / health_records
    loaded,               \* Car: mazda / Health: getRecord(person), as last loaded
    trackerLoading,       \* Car / Health: useState loading
    editingRow,           \* Car: mazdaEditingRow / Health: editing.type
    form,                 \* Car: the row's form fields / Health: editDate
    otherSaves,           \* history: saves made by another session
    storedFeedUrl,        \* localStorage: the item under MEAL_PLAN_FEED_KEY
    feedUrl,              \* MealPlan: useState feedUrl
    isSettingUp,          \* MealPlan: useState isSettingUp
    mealError,            \* MealPlan: useState error ("none": null)
    mealLoading,          \* MealPlan: useState loading
    mealFetches,          \* MealPlan: loadMealEvents calls awaiting the response
    lastStep              \* history: the handler that ran last

calVars == <<tz, upstream, events, selectedDate, showCalendarDropdown, loading,
             eventsByDay, thrown>>

mealVars == <<mealEvent, parsed>>

dashVars == <<calEvents, dashLoaded, dashEventsByDay>>

feedVars == <<feed, mealSelectedDate, mealEvents, mealLoaded, mealEventsByDay>>

viewVars == <<dashVars, feedVars>>

proxyVars == <<request, pc, user, fetched, response>>

policyVars == <<policies, access>>

selectVars == <<calendars, selectedCalendarIds>>

loadVars == <<session, error, preferencesLoaded, isInitialLoadRef, calls, effects,
              saveTimer, refTimer, listed, profile, userChanged, wrote, clicks>>

listVars == <<listRequest, googleAnswers, listResponse>>

sportVars == <<today, seasons, sportRows, milesSports>>

trackerVars == <<page, table, loaded, trackerLoading, editingRow, form, otherSaves>>

setupVars == <<storedFeedUrl, feedUrl, isSettingUp, mealError, mealLoading, mealFetches,
               lastStep>>

laterVars == <<loadVars, listVars, sportVars, trackerVars, setupVars>>

restVars == <<viewVars, proxyVars, policyVars, selectVars, laterVars>>

vars == <<calVars, mealVars, restVars>>

----------------------------------------------------------------------------
(* Bounds of the model.                                                    *)

MaxEvents == 2   \* longest fetched event list
NavWeeks == 1    \* how many weeks Prev / Next may move away from today
MaxPad == 2      \* longest run of blanks between slot keyword and remainder
MaxSelected == 2 \* longest initial calendar selection

----------------------------------------------------------------------------
(* Characters and numerals.                                                *)

Digits == <<"0", "1", "2", "3", "4", "5", "6", "7", "8", "9">>

DigitVal(c) == CHOOSE n \in 0..9 : Digits[n + 1] = c

Pad2(n) == <<Digits[((n \div 10) % 10) + 1], Digits[(n % 10) + 1]>>

Pad4(n) == Pad2(n \div 100) \o Pad2(n % 100)

Num2(s, i) == DigitVal(s[i]) * 10 + DigitVal(s[i + 1])

Num4(s, i) == Num2(s, i) * 100 + Num2(s, i + 2)

----------------------------------------------------------------------------
(* Civil calendar arithmetic behind Date and date-fns.                     *)

MinutesPerDay == 24 * 60

IsLeap(y) == (y % 4 = 0 /\ y % 100 # 0) \/ y % 400 = 0

DaysInYear(y) == IF IsLeap(y) THEN 366 ELSE 365

DaysInMonth(y, m) ==
    IF m = 2 THEN (IF IsLeap(y) THEN 29 ELSE 28)
    ELSE IF m \in {4, 6, 9, 11} THEN 30 ELSE 31

RECURSIVE DaysBeforeYear(_)
DaysBeforeYear(y) ==
    IF y <= 2024 THEN 0 ELSE DaysBeforeYear(y - 1) + DaysInYear(y - 1)

RECURSIVE DaysBeforeMonth(_, _)
DaysBeforeMonth(y, m) ==
    IF m <= 1 THEN 0 ELSE DaysBeforeMonth(y, m - 1) + DaysInMonth(y, m - 1)

\* Day number of a civil date: days since 2024-01-01.
CivilToDays(y, m, d) == DaysBeforeYear(y) + DaysBeforeMonth(y, m) + (d - 1)

RECURSIVE YearOfDays(_, _)
YearOfDays(n, y) ==
    IF n < DaysInYear(y) THEN <<y, n>> ELSE YearOfDays(n - DaysInYear(y), y + 1)

RECURSIVE MonthOfDays(_, _, _)
MonthOfDays(n, y, m) ==
    IF n < DaysInMonth(y, m) THEN <<m, n + 1>>
    ELSE MonthOfDays(n - DaysInMonth(y, m), y, m + 1)

\* Civil date <<year, month, day>> of a day number.
DaysToCivil(n) ==
    LET yn == YearOfDays(n, 2024)
        md == MonthOfDays(yn[2], yn[1], 1)
    IN  <<yn[1], md[1], md[2]>>

\* Date.getDate()/getMonth()/getFullYear(): the local calendar day of a timestamp.
LocalDay(t) == (t + tz) \div MinutesPerDay

\* new Date(d).setHours(0, 0, 0, 0): local midnight of the timestamp's local day.
SetHoursZero(t) == LocalDay(t) * MinutesPerDay - tz

\* d.setDate(d.getDate() + k) and date-fns addDays(d, k): same local time, k days on.
AddDays(t, k) == t + k * MinutesPerDay

\* date-fns format(d, 'yyyy-MM-dd').
FormatDayKey(t) ==
    LET c == DaysToCivil(LocalDay(t))
    IN  Pad4(c[1]) \o <<"-">> \o Pad2(c[2]) \o <<"-">> \o Pad2(c[3])

\* The UTC offset, in minutes, written at the end of an ISO date-time:
\* nothing (local time), "Z", or +hh:mm / -hh:mm.
ZoneOffset(z) ==
    IF z = <<>> THEN tz
    ELSE IF z = <<"Z">> THEN 0
    ELSE (IF z[1] = "-" THEN -1 ELSE 1) * (Num2(z, 2) * 60 + Num2(z, 5))

\* Mutant of parseISO: a date-only string read as UTC midnight, as new Date(s) does.
parseISOUtcDate(s) ==
    LET day == CivilToDays(Num4(s, 1), Num2(s, 6), Num2(s, 9))
    IN  IF Len(s) = 10 THEN day * MinutesPerDay
        ELSE LET rest == SubSeq(s, 20, Len(s))
                 zone == IF rest # <<>> /\ rest[1] = "." THEN SubSeq(rest, 5, Len(rest))
                         ELSE rest
             IN  day * MinutesPerDay + Num2(s, 12) * 60 + Num2(s, 15) - ZoneOffset(zone)

\* date-fns parseISO on a well-formed string: "yyyy-MM-dd" is local midnight;
\* "yyyy-MM-ddTHH:mm:ss[.SSS][zone]" is that wall-clock time at the zone.
parseISO(s) ==
    LET day == CivilToDays(Num4(s, 1), Num2(s, 6), Num2(s, 9))
    IN  IF Len(s) = 10 THEN day * MinutesPerDay - tz
        ELSE LET rest == SubSeq(s, 20, Len(s))
                 zone == IF rest # <<>> /\ rest[1] = "." THEN SubSeq(rest, 5, Len(rest))
                         ELSE rest
             IN  day * MinutesPerDay + Num2(s, 12) * 60 + Num2(s, 15) - ZoneOffset(zone)

----------------------------------------------------------------------------
(* Calendar.tsx: grouping the fetched events by day.                       *)

\* A falsy string field: undefined or ''.
Truthy(s) == s # <<>>

\* event.end?.date and event.end?.dateTime: undefined when the end object is missing.
EndDate(e) == IF e.hasEnd THEN e.end.date ELSE <<>>

EndDateTime(e) == IF e.hasEnd THEN e.end.dateTime ELSE <<>>

\* event.start.dateTime || event.start.date
StartOf(e) == IF Truthy(e.start.dateTime) THEN e.start.dateTime ELSE e.start.date

\* const isAllDay = !!(event.start.date && event.end?.date)
IsAllDay(e) == Truthy(e.start.date) /\ Truthy(EndDate(e))

\* Mutant of EventRange: the exclusive end date of an all-day event used as is.
EventRangeInclusiveEnd(e) ==
    IF IsAllDay(e) /\ Truthy(e.start.date)
    THEN LET startDate == parseISO(e.start.date)
             endDateStr == EndDate(e)
         IN  IF ~Truthy(endDateStr) THEN <<startDate, startDate>>
             ELSE <<startDate, parseISO(endDateStr)>>
    ELSE IF Truthy(e.start.dateTime) /\ Truthy(EndDateTime(e))
    THEN <<parseISO(e.start.dateTime), parseISO(EndDateTime(e))>>
    ELSE <<parseISO(StartOf(e)), parseISO(StartOf(e))>>

\* The <<startDate, endDate>> the reduction computes for an event with a start.
EventRange(e) ==
    IF IsAllDay(e) /\ Truthy(e.start.date)
    THEN LET startDate == parseISO(e.start.date)
             endDateStr == EndDate(e)
         IN  IF ~Truthy(endDateStr) THEN <<startDate, startDate>>
             ELSE <<startDate, AddDays(parseISO(endDateStr), -1)>>
    ELSE IF Truthy(e.start.dateTime) /\ Truthy(EndDateTime(e))
    THEN <<parseISO(e.start.dateTime), parseISO(EndDateTime(e))>>
    ELSE <<parseISO(StartOf(e)), parseISO(StartOf(e))>>

EmptyIndex == [k \in {} |-> <<>>]

\* Mutant of PushEvent: the bucket is replaced instead of appended to.
PushEventOverwrite(acc, dayKey, e) ==
    IF dayKey \in DOMAIN acc THEN [acc EXCEPT ![dayKey] = <<e>>]
    ELSE acc @@ (dayKey :> <<e>>)

\* if (!acc[dayKey]) acc[dayKey] = []; acc[dayKey].push(event)
PushEvent(acc, dayKey, e) ==
    IF dayKey \in DOMAIN acc THEN [acc EXCEPT ![dayKey] = Append(@, e)]
    ELSE acc @@ (dayKey :> <<e>>)

\* Mutant of SpanLoop: the loop stops before the end day (< for <=).
RECURSIVE SpanLoopExclusive(_, _, _, _)
SpanLoopExclusive(acc, e, currentDate, finalEndDate) ==
    IF currentDate < finalEndDate
    THEN SpanLoopExclusive(PushEvent(acc, FormatDayKey(currentDate), e), e,
                           AddDays(currentDate, 1), finalEndDate)
    ELSE acc

\* while (currentDate <= finalEndDate) { push; currentDate = addDays(currentDate, 1) }
RECURSIVE SpanLoop(_, _, _, _)
SpanLoop(acc, e, currentDate, finalEndDate) ==
    IF currentDate <= finalEndDate
    THEN SpanLoop(PushEvent(acc, FormatDayKey(currentDate), e), e,
                  AddDays(currentDate, 1), finalEndDate)
    ELSE acc

\* One step of the reduce callback.
GroupEvent(acc, e) ==
    IF ~Truthy(StartOf(e)) THEN acc
    ELSE LET range == EventRange(e)
         IN  SpanLoop(acc, e, SetHoursZero(range[1]), SetHoursZero(range[2]))

\* events.reduce(callback, {})
RECURSIVE ReduceFrom(_, _, _)
ReduceFrom(acc, evs, i) ==
    IF i > Len(evs) THEN acc ELSE ReduceFrom(GroupEvent(acc, evs[i]), evs, i + 1)

GroupByDay(evs) == ReduceFrom(EmptyIndex, evs, 1)

\* event.start.dateTime on an event without a start object: reading a property of
\* undefined is a TypeError, which leaves the reduce callback and the render.
RenderThrows(evs) == \E i \in DOMAIN evs : ~evs[i].hasStart

----------------------------------------------------------------------------
(* Calendar.tsx: the week view's per-day sort.                             *)

\* Primary collation weight of the characters of an ISO date or date-time under
\* String.prototype.localeCompare (CLDR root order: punctuation - : . before
\* the symbol +, then digits, then letters).
CollationRank(c) ==
    CASE c = "-" -> 1
      [] c = ":" -> 2
      [] c = "." -> 3
      [] c = "+" -> 4
      [] c = "T" -> 15
      [] c = "Z" -> 16
      [] OTHER -> 5 + DigitVal(c)

\* a.localeCompare(b): negative, zero or positive.
RECURSIVE LocaleCompareFrom(_, _, _)
LocaleCompareFrom(a, b, i) ==
    IF i > Len(a) /\ i > Len(b) THEN 0
    ELSE IF i > Len(a) THEN -1
    ELSE IF i > Len(b) THEN 1
    ELSE IF CollationRank(a[i]) < CollationRank(b[i]) THEN -1
    ELSE IF CollationRank(a[i]) > CollationRank(b[i]) THEN 1
    ELSE LocaleCompareFrom(a, b, i + 1)

localeCompare(a, b) == LocaleCompareFrom(a, b, 1)

\* Mutant of CompareStart: events ordered by owning calendar before start.
CompareCalendarThenStart(a, b) ==
    IF a.calendarId = b.calendarId THEN localeCompare(StartOf(a), StartOf(b))
    ELSE IF a.calendarId = "family" THEN -1 ELSE 1

\* The comparator handed to sort: (a, b) => as.localeCompare(bs).
CompareStart(a, b) == localeCompare(StartOf(a), StartOf(b))

\* Array.prototype.sort is stable: an element goes after every element already
\* placed that does not compare greater than it.
RECURSIVE InsertAt(_, _, _)
InsertAt(sorted, x, j) ==
    IF j >= 1 /\ CompareStart(sorted[j], x) > 0 THEN InsertAt(sorted, x, j - 1)
    ELSE SubSeq(sorted, 1, j) \o <<x>> \o SubSeq(sorted, j + 1, Len(sorted))

InsertStable(sorted, x) == InsertAt(sorted, x, Len(sorted))

RECURSIVE SortFrom(_, _, _)
SortFrom(sorted, list, i) ==
    IF i > Len(list) THEN sorted
    ELSE SortFrom(InsertStable(sorted, list[i]), list, i + 1)

\* Mutant of SortDay: a sort that puts an element before the placed elements it
\* ties with, so that sorting a sorted bucket again reverses its ties.
RECURSIVE InsertBeforeTies(_, _, _)
InsertBeforeTies(sorted, x, j) ==
    IF j >= 1 /\ CompareStart(sorted[j], x) >= 0 THEN InsertBeforeTies(sorted, x, j - 1)
    ELSE SubSeq(sorted, 1, j) \o <<x>> \o SubSeq(sorted, j + 1, Len(sorted))

RECURSIVE SortBeforeTiesFrom(_, _, _)
SortBeforeTiesFrom(sorted, list, i) ==
    IF i > Len(list) THEN sorted
    ELSE SortBeforeTiesFrom(InsertBeforeTies(sorted, list[i], Len(sorted)), list, i + 1)

SortDayReversingTies(list) == SortBeforeTiesFrom(<<>>, list, 1)

SortDay(list) == SortFrom(<<>>, list, 1)

\* weekDays: the seven days from selectedDate's local midnight.
WeekDays(sel) == [i \in 1..7 |-> AddDays(SetHoursZero(sel), i - 1)]

WeekKeys(sel) == {FormatDayKey(WeekDays(sel)[i]) : i \in 1..7}

\* One full render of the week view: eventsByDay is rebuilt from events, and
\* each displayed day's bucket is sorted in place.
RenderWeek(evs, sel) ==
    LET byDay == GroupByDay(evs)
    IN  [k \in DOMAIN byDay |->
            IF k \in WeekKeys(sel) THEN SortDay(byDay[k]) ELSE byDay[k]]

\* A render that returns the 'Loading calendar events...' card: eventsByDay is
\* rebuilt, the week view (and its sort) is not reached.
RenderLoading(evs) == GroupByDay(evs)

----------------------------------------------------------------------------
(* Events the upstream calendar API can return.                            *)

DateStr(y, m, d) == Pad4(y) \o <<"-">> \o Pad2(m) \o <<"-">> \o Pad2(d)

DateTimeStr(y, m, d, h, mi, zone) ==
    DateStr(y, m, d) \o <<"T">> \o Pad2(h) \o <<":">> \o Pad2(mi) \o <<":", "0", "0">> \o zone

ZoneEDT == <<"-", "0", "4", ":", "0", "0">>
ZoneCEST == <<"+", "0", "2", ":", "0", "0">>
ZoneUTC == <<"Z">>

None == <<>>

Event(id, sDateTime, sDate, hasEnd, eDateTime, eDate, calendarId) ==
    [id |-> id,
     hasStart |-> TRUE,
     start |-> [dateTime |-> sDateTime, date |-> sDate],
     hasEnd |-> hasEnd,
     end |-> [dateTime |-> eDateTime, date |-> eDate],
     calendarId |-> calendarId]

AllDay(id, s, e, cal) == Event(id, None, s, TRUE, None, e, cal)

Timed(id, s, e, cal) == Event(id, s, None, TRUE, e, None, cal)

OneDayAllDay == AllDay("oneDay", DateStr(2024, 6, 1), DateStr(2024, 6, 2), "family")
ThreeDayAllDay == AllDay("threeDay", DateStr(2024, 5, 31), DateStr(2024, 6, 3), "family")
ZeroLengthAllDay == AllDay("zeroLength", DateStr(2024, 6, 2), DateStr(2024, 6, 2), "family")
Morning ==
    Timed("morning", DateTimeStr(2024, 6, 1, 10, 0, ZoneEDT),
          DateTimeStr(2024, 6, 1, 11, 0, ZoneEDT), "family")
LateNight ==
    Timed("lateNight", DateTimeStr(2024, 6, 1, 23, 0, ZoneEDT),
          DateTimeStr(2024, 6, 2, 1, 0, ZoneEDT), "family")
BackwardsTimed ==
    Timed("backwardsTimed", DateTimeStr(2024, 6, 2, 10, 0, ZoneEDT),
          DateTimeStr(2024, 6, 1, 9, 0, ZoneEDT), "family")
DateNoEnd == Event("dateNoEnd", None, DateStr(2024, 6, 2), FALSE, None, None, "family")
TimedNoEnd ==
    Event("timedNoEnd", DateTimeStr(2024, 6, 1, 10, 0, ZoneEDT), None, FALSE, None, None,
          "family")
TimedStartDateEnd ==
    Event("timedStartDateEnd", DateTimeStr(2024, 6, 1, 18, 0, ZoneEDT), None, TRUE, None,
          DateStr(2024, 6, 2), "family")
NoStart == Event("noStart", None, None, TRUE, None, DateStr(2024, 6, 2), "family")
MorningBerlin ==
    Timed("morningBerlin", DateTimeStr(2024, 6, 1, 10, 0, ZoneCEST),
          DateTimeStr(2024, 6, 1, 11, 0, ZoneCEST), "work")
AfternoonUTC ==
    Timed("afternoonUtc", DateTimeStr(2024, 6, 1, 14, 0, ZoneUTC),
          DateTimeStr(2024, 6, 1, 15, 0, ZoneUTC), "work")

EventPool ==
    {OneDayAllDay, ThreeDayAllDay, ZeroLengthAllDay, Morning, LateNight, BackwardsTimed, DateNoEnd, TimedNoEnd, TimedStartDateEnd,
     NoStart, MorningBerlin, AfternoonUTC}

\* Event lists: upstream events are distinct objects.
EventLists ==
    {l \in UNION {[1..n -> EventPool] : n \in 0..MaxEvents} :
        \A i, j \in DOMAIN l : i # j => l[i] # l[j]}

\* Host time zones: US Eastern and Central European summer time.
TimeZones == {-240, 120}

\* new Date() at mount: 2024-06-01T13:30Z.
Now == CivilToDays(2024, 6, 1) * MinutesPerDay + 13 * 60 + 30

NoMeal == [summary |-> <<>>, description |-> <<>>]
NotParsed == [by |-> "none"]

\* The components and functions a specification leaves out stay as constructed.
ViewsIdle ==
    /\ calEvents = <<>>
    /\ dashLoaded = FALSE
    /\ dashEventsByDay = EmptyIndex
    /\ feed = <<>>
    /\ mealSelectedDate = Now
    /\ mealEvents = <<>>
    /\ mealLoaded = FALSE
    /\ mealEventsByDay = EmptyIndex

NoRequest == [fn |-> "none"]

ProxyIdle ==
    /\ request = NoRequest
    /\ pc = "idle"
    /\ user = "unknown"
    /\ fetched = {}
    /\ response = 0

NoAccess == [command |-> "none"]

PolicyIdle ==
    /\ policies = "none"
    /\ access = NoAccess

SelectIdle ==
    /\ calendars = <<>>
    /\ selectedCalendarIds = <<>>

CalendarIdle ==
    /\ upstream = <<>>
    /\ events = <<>>
    /\ selectedDate = Now
    /\ showCalendarDropdown = FALSE
    /\ loading = TRUE
    /\ eventsByDay = RenderLoading(<<>>)
    /\ thrown = {}

MealIdle ==
    /\ mealEvent = NoMeal
    /\ parsed = NotParsed

NoEffects == [load |-> FALSE, save |-> FALSE]
NoTimer == [set |-> FALSE]

LoadIdle ==
    /\ session = TRUE
    /\ error = "none"
    /\ preferencesLoaded = FALSE
    /\ isInitialLoadRef = TRUE
    /\ calls = <<>>
    /\ effects = NoEffects
    /\ saveTimer = NoTimer
    /\ refTimer = FALSE
    /\ listed = <<>>
    /\ profile = <<>>
    /\ userChanged = FALSE
    /\ wrote = FALSE
    /\ clicks = 0

NoListRequest == [action |-> "none"]
NoListResponse == [statusCode |-> 0]

ListIdle ==
    /\ listRequest = NoListRequest
    /\ googleAnswers = <<>>
    /\ listResponse = NoListResponse

SportsIdle ==
    /\ today = [month |-> 6, year |-> 2024]
    /\ seasons = <<>>
    /\ sportRows = <<>>
    /\ milesSports = <<>>

NoRecord == [id |-> 0]

TrackerIdle ==
    /\ page = "none"
    /\ table = <<>>
    /\ loaded = NoRecord
    /\ trackerLoading = TRUE
    /\ editingRow = "none"
    /\ form = <<>>
    /\ otherSaves = 0

NoItem == [present |-> FALSE]

SetupIdle ==
    /\ storedFeedUrl = NoItem
    /\ feedUrl = <<>>
    /\ isSettingUp = FALSE
    /\ mealError = "none"
    /\ mealLoading = FALSE
    /\ mealFetches = 0
    /\ lastStep = "none"

LaterIdle ==
    /\ LoadIdle
    /\ ListIdle
    /\ SportsIdle
    /\ TrackerIdle
    /\ SetupIdle

----------------------------------------------------------------------------
(* Calendar component: state after construction and its handlers.          *)

Init ==
    /\ tz \in TimeZones
    /\ upstream \in EventLists
    /\ events = <<>>
    /\ selectedDate = Now
    /\ showCalendarDropdown = FALSE
    /\ loading = TRUE
    /\ eventsByDay = RenderLoading(<<>>)
    /\ thrown = {}
    /\ MealIdle
    /\ ViewsIdle
    /\ ProxyIdle
    /\ PolicyIdle
    /\ SelectIdle
    /\ LaterIdle

\* loadCalendarEvents resolving with the fetched events: setEvents, setLoading(false),
\* and the render that follows.  A render that throws commits nothing: the
\* component is unmounted and no day index is produced.
LoadCalendarEventsOk ==
    /\ loading
    /\ "Calendar" \notin thrown
    /\ events' = upstream
    /\ loading' = FALSE
    /\ IF RenderThrows(events')
       THEN /\ thrown' = thrown \cup {"Calendar"}
            /\ eventsByDay' = EmptyIndex
       ELSE /\ eventsByDay' = RenderWeek(events', selectedDate)
            /\ UNCHANGED thrown
    /\ UNCHANGED <<tz, upstream, selectedDate, showCalendarDropdown, mealVars, restVars>>

\* A change of selectedDate re-renders and runs the load effect, whose synchronous
\* part sets loading.
SelectDate(d) ==
    /\ ~loading
    /\ "Calendar" \notin thrown
    /\ selectedDate' = d
    /\ loading' = TRUE
    /\ eventsByDay' = RenderLoading(events)
    /\ UNCHANGED <<tz, upstream, events, showCalendarDropdown, thrown, mealVars, restVars>>

PrevWeek ==
    /\ selectedDate > AddDays(Now, -7 * NavWeeks)
    /\ SelectDate(AddDays(selectedDate, -7))

NextWeek ==
    /\ selectedDate < AddDays(Now, 7 * NavWeeks)
    /\ SelectDate(AddDays(selectedDate, 7))

Today == SelectDate(Now)

\* The 'Calendars' button: a state change that only re-renders the week view.
ToggleDropdown ==
    /\ ~loading
    /\ "Calendar" \notin thrown
    /\ showCalendarDropdown' = ~showCalendarDropdown
    /\ eventsByDay' = RenderWeek(events, selectedDate)
    /\ UNCHANGED <<tz, upstream, events, selectedDate, loading, thrown, mealVars, restVars>>

Next == LoadCalendarEventsOk \/ PrevWeek \/ NextWeek \/ Today \/ ToggleDropdown

Spec == Init /\ [][Next]_vars

----------------------------------------------------------------------------
(* MealPlan.tsx / Dashboard.tsx: parseMeal.                                *)

UpperCase == <<"A", "B", "C", "D", "E", "F", "G", "H", "I", "J", "K", "L", "M", "N", "O", "P", "Q", "R", "S", "T", "U", "V", "W", "X", "Y", "Z">>
LowerCase == <<"a", "b", "c", "d", "e", "f", "g", "h", "i", "j", "k", "l", "m", "n", "o", "p", "q", "r", "s", "t", "u", "v", "w", "x", "y", "z">>

ToLowerChar(c) ==
    IF \E i \in DOMAIN UpperCase : UpperCase[i] = c
    THEN LowerCase[CHOOSE i \in DOMAIN UpperCase : UpperCase[i] = c]
    ELSE c

\* String.prototype.toLowerCase
toLowerCase(s) == [i \in 1..Len(s) |-> ToLowerChar(s[i])]

\* Characters \s matches, and the line terminators . does not match.
IsSpace(c) == c \in {" ", "\t", "\n"}

IsDot(c) == c # "\n"

RECURSIVE TrimStart(_)
TrimStart(s) == IF s # <<>> /\ IsSpace(s[1]) THEN TrimStart(Tail(s)) ELSE s

RECURSIVE TrimEnd(_)
TrimEnd(s) ==
    IF s # <<>> /\ IsSpace(s[Len(s)]) THEN TrimEnd(SubSeq(s, 1, Len(s) - 1)) ELSE s

\* String.prototype.trim
trim(s) == TrimEnd(TrimStart(s))

\* The alternatives of the first group, in the order the pattern lists them.
MealKeywords ==
    <<<<"B", "r", "e", "a", "k", "f", "a", "s", "t">>,
      <<"L", "u", "n", "c", "h">>,
      <<"D", "i", "n", "n", "e", "r">>,
      <<"B", "r", "u", "n", "c", "h">>,
      <<"S", "n", "a", "c", "k">>>>

\* Under the i flag, whether keyword kw stands at position i of s.
KeywordAt(s, i, kw) ==
    /\ i + Len(kw) - 1 <= Len(s)
    /\ toLowerCase(SubSeq(s, i, i + Len(kw) - 1)) = toLowerCase(kw)

\* Length of the run of \s characters of s that starts at q.
RECURSIVE SpaceRun(_, _)
SpaceRun(s, q) == IF q <= Len(s) /\ IsSpace(s[q]) THEN 1 + SpaceRun(s, q + 1) ELSE 0

\* \s*(.+) at position q: \s* is greedy and gives characters back until (.+) can
\* take one.  The start of group 2, or 0 when there is no match.
RECURSIVE GroupTwoStart(_, _, _)
GroupTwoStart(s, q, n) ==
    IF n < 0 THEN 0
    ELSE IF q + n <= Len(s) /\ IsDot(s[q + n]) THEN q + n
    ELSE GroupTwoStart(s, q, n - 1)

\* :?\s*(.+) at position p: the colon is taken when present, and given back
\* when the rest cannot match after it.
TailMatch(s, p) ==
    LET withColon == IF p <= Len(s) /\ s[p] = ":"
                     THEN GroupTwoStart(s, p + 1, SpaceRun(s, p + 1)) ELSE 0
    IN  IF withColon # 0 THEN withColon ELSE GroupTwoStart(s, p, SpaceRun(s, p))

\* (.+) is greedy: it runs to the next line terminator or the end of s.
RECURSIVE DotRunEnd(_, _)
DotRunEnd(s, r) == IF r + 1 <= Len(s) /\ IsDot(s[r + 1]) THEN DotRunEnd(s, r + 1) ELSE r

\* The first alternative, from k on, that matches at position i with the rest of
\* the pattern after it; 0 when none does.
RECURSIVE AlternativeAt(_, _, _)
AlternativeAt(s, i, k) ==
    IF k > Len(MealKeywords) THEN 0
    ELSE IF KeywordAt(s, i, MealKeywords[k]) /\ TailMatch(s, i + Len(MealKeywords[k])) # 0
    THEN k
    ELSE AlternativeAt(s, i, k + 1)

\* The leftmost position, from i on, at which the pattern matches; 0 when none.
RECURSIVE MatchPosition(_, _)
MatchPosition(s, i) ==
    IF i > Len(s) THEN 0
    ELSE IF AlternativeAt(s, i, 1) # 0 THEN i
    ELSE MatchPosition(s, i + 1)

\* summary.match(/(Breakfast|Lunch|Dinner|Brunch|Snack):?\s*(.+)/i): groups 1 and 2.
MealMatch(s) ==
    LET i == MatchPosition(s, 1)
    IN  IF i = 0 THEN [matched |-> FALSE, type |-> <<>>, rest |-> <<>>]
        ELSE LET kw == MealKeywords[AlternativeAt(s, i, 1)]
                 r == TailMatch(s, i + Len(kw))
             IN  [matched |-> TRUE,
                  type |-> SubSeq(s, i, i + Len(kw) - 1),
                  rest |-> SubSeq(s, r, DotRunEnd(s, r))]

MealType == <<"M", "e", "a", "l">>
Untitled == <<"U", "n", "t", "i", "t", "l", "e", "d">>

Null == [isNull |-> TRUE, value |-> <<>>]
Surfaced(d) == [isNull |-> FALSE, value |-> d]

\* Mutant of parseMeal: the description is compared with the name and the title
\* as exact strings, without trim or toLowerCase.
parseMealExactDescription(event) ==
    LET summary == event.summary
        description == event.description
        mealMatch == MealMatch(summary)
    IN  IF mealMatch.matched
        THEN LET extractedName == trim(mealMatch.rest)
                 hasAdditionalDescription ==
                     /\ Truthy(description)
                     /\ description # summary
                     /\ description # extractedName
             IN  [type |-> mealMatch.type,
                  name |-> extractedName,
                  description |-> IF hasAdditionalDescription THEN Surfaced(description)
                                  ELSE Null]
        ELSE LET hasAdditionalDescription ==
                     Truthy(description) /\ description # summary
             IN  [type |-> MealType,
                  name |-> IF Truthy(summary) THEN summary ELSE Untitled,
                  description |-> IF hasAdditionalDescription THEN Surfaced(description)
                                  ELSE Null]

\* Mutant of parseMeal: the fallback name is the trimmed title.
parseMealTrimmedFallback(event) ==
    LET summary == event.summary
        description == event.description
        mealMatch == MealMatch(summary)
    IN  IF mealMatch.matched
        THEN LET extractedName == trim(mealMatch.rest)
                 hasAdditionalDescription ==
                     /\ Truthy(description)
                     /\ trim(description) # trim(summary)
                     /\ toLowerCase(trim(description)) # toLowerCase(extractedName)
             IN  [type |-> mealMatch.type,
                  name |-> extractedName,
                  description |-> IF hasAdditionalDescription THEN Surfaced(description)
                                  ELSE Null]
        ELSE LET hasAdditionalDescription ==
                     Truthy(description) /\ trim(description) # trim(summary)
             IN  [type |-> MealType,
                  name |-> IF Truthy(trim(summary)) THEN trim(summary) ELSE Untitled,
                  description |-> IF hasAdditionalDescription THEN Surfaced(description)
                                  ELSE Null]

\* MealPlan.tsx parseMeal(event); event.summary || '' and event.description || ''
\* leave the two strings as they are.
parseMeal(event) ==
    LET summary == event.summary
        description == event.description
        mealMatch == MealMatch(summary)
    IN  IF mealMatch.matched
        THEN LET extractedName == trim(mealMatch.rest)
                 hasAdditionalDescription ==
                     /\ Truthy(description)
                     /\ trim(description) # trim(summary)
                     /\ toLowerCase(trim(description)) # toLowerCase(extractedName)
             IN  [type |-> mealMatch.type,
                  name |-> extractedName,
                  description |-> IF hasAdditionalDescription THEN Surfaced(description)
                                  ELSE Null]
        ELSE LET hasAdditionalDescription ==
                     Truthy(description) /\ trim(description) # trim(summary)
             IN  [type |-> MealType,
                  name |-> IF Truthy(summary) THEN summary ELSE Untitled,
                  description |-> IF hasAdditionalDescription THEN Surfaced(description)
                                  ELSE Null]

\* Dashboard.tsx parseMeal(summary, description): the description is handed back.
DashboardParseMeal(summary, description) ==
    LET m == MealMatch(summary)
    IN  IF m.matched
        THEN [type |-> m.type, name |-> trim(m.rest), description |-> Surfaced(description)]
        ELSE [type |-> MealType,
              name |-> IF Truthy(summary) THEN summary ELSE Untitled,
              description |-> Surfaced(description)]

----------------------------------------------------------------------------
(* Titles and descriptions a meal-plan feed can carry.                     *)

TitlePrefixes == {<<>>, <<"S", "u", "n", "d", "a", "y", " ">>}

KeywordForms ==
    {<<>>, <<"D", "i", "n", "n", "e", "r">>, <<"d", "i", "n", "n", "e", "r">>, <<"D", "I", "N", "N", "E", "R">>, <<"L", "u", "n", "c", "h">>,
     <<"B", "r", "e", "a", "k", "f", "a", "s", "t">>, <<"B", "r", "u", "n", "c", "h">>, <<"S", "n", "a", "c", "k">>}

Colons == {<<>>, <<":">>}

Blanks == {[i \in 1..n |-> " "] : n \in 0..MaxPad}

Remainders == {<<>>, <<"T", "a", "c", "o", " ", "N", "i", "g", "h", "t">>, <<"t", "a", "c", "o", "s">>, <<"s">>, <<"G", "r", "o", "c", "e", "r", "y", " ", "p", "i", "c", "k", "u", "p">>}

Titles ==
    {p \o k \o c \o b \o r :
        p \in TitlePrefixes, k \in KeywordForms, c \in Colons, b \in Blanks, r \in Remainders}

Descriptions ==
    {<<>>, <<" ">>, <<"T", "a", "c", "o", " ", "N", "i", "g", "h", "t">>, <<"t", "a", "c", "o", " ", "n", "i", "g", "h", "t">>, <<" ", "T", "a", "c", "o", " ", "N", "i", "g", "h", "t", " ">>,
     <<"D", "i", "n", "n", "e", "r", ":", " ", "T", "a", "c", "o", " ", "N", "i", "g", "h", "t">>, <<"W", "i", "t", "h", " ", "s", "a", "l", "s", "a">>}

MealInit ==
    /\ \E title \in Titles :
          \E description \in Descriptions \cup {title, <<" ">> \o title} :
              mealEvent = [summary |-> title, description |-> description]
    /\ parsed = NotParsed
    /\ tz = -240
    /\ CalendarIdle
    /\ ViewsIdle
    /\ ProxyIdle
    /\ PolicyIdle
    /\ SelectIdle
    /\ LaterIdle

\* The meal-plan week view rendering the event: parseMeal(meal).
MealPlanParse ==
    /\ parsed = NotParsed
    /\ parsed' = [by |-> "MealPlan", result |-> parseMeal(mealEvent)]
    /\ UNCHANGED <<mealEvent, calVars, restVars>>

\* The dashboard's meal row: parseMeal(e.summary || '', e.description || '').
DashboardParse ==
    /\ parsed = NotParsed
    /\ parsed' = [by |-> "Dashboard",
                  result |-> DashboardParseMeal(mealEvent.summary, mealEvent.description)]
    /\ UNCHANGED <<mealEvent, calVars, restVars>>

MealNext == MealPlanParse \/ DashboardParse

MealSpec == MealInit /\ [][MealNext]_vars


----------------------------------------------------------------------------
(* Vocabulary of the properties.                                           *)

Count(list, e) == Cardinality({i \in DOMAIN list : list[i] = e})

\* How often event e sits in the bucket of day key k.
InBucket(k, e) == IF k \in DOMAIN eventsByDay THEN Count(eventsByDay[k], e) ELSE 0

\* The day keys under which event e appears.
DaysHolding(e) == {k \in DOMAIN eventsByDay : Count(eventsByDay[k], e) > 0}

Fetched == {events[i] : i \in DOMAIN events}

\* Day number of a "yyyy-MM-dd" string, and the key of a day number.
DayNumber(s) == CivilToDays(Num4(s, 1), Num2(s, 6), Num2(s, 9))

KeyOfDay(n) == LET c == DaysToCivil(n) IN DateStr(c[1], c[2], c[3])

\* e appears once under each day of first..last and nowhere else.
OnExactly(e, first, last) ==
    /\ DaysHolding(e) = {KeyOfDay(n) : n \in first..last}
    /\ \A k \in DaysHolding(e) : InBucket(k, e) = 1

HasBothDates(e) == Truthy(e.start.date) /\ e.hasEnd /\ Truthy(e.end.date)

HasBothDateTimes(e) ==
    /\ Truthy(e.start.dateTime) /\ e.hasEnd /\ Truthy(e.end.dateTime)
    /\ ~Truthy(e.start.date) /\ ~Truthy(e.end.date)

Key0601 == <<"2", "0", "2", "4", "-", "0", "6", "-", "0", "1">>
Key0602 == <<"2", "0", "2", "4", "-", "0", "6", "-", "0", "2">>

----------------------------------------------------------------------------
(* C1: an all-day event whose exclusive end date is later than its start   *)
(* date is in eventsByDay once under each day from start.date to end.date  *)
(* minus one day, and under no other day; the event 2024-06-01..2024-06-02 *)
(* is only under 2024-06-01.                                               *)
C1_AllDaySpan ==
    /\ \A e \in Fetched :
          HasBothDates(e) /\ DayNumber(e.end.date) > DayNumber(e.start.date)
             => /\ OnExactly(e, DayNumber(e.start.date), DayNumber(e.end.date) - 1)
                /\ Cardinality(DaysHolding(e))
                      = DayNumber(e.end.date) - DayNumber(e.start.date)
    /\ OneDayAllDay \in Fetched
          => DaysHolding(OneDayAllDay) = {Key0601} /\ InBucket(Key0601, OneDayAllDay) = 1

C1_Witness ==
    /\ ~loading
    /\ ThreeDayAllDay \in Fetched
    /\ OneDayAllDay \in Fetched
    /\ Cardinality(DaysHolding(ThreeDayAllDay)) = 3

\* Whether the effective end day of an event lies before its start day.
EndsBeforeStartDay(e) ==
    \/ HasBothDates(e) /\ DayNumber(e.end.date) <= DayNumber(e.start.date)
    \/ HasBothDateTimes(e)
          /\ LocalDay(parseISO(e.end.dateTime)) < LocalDay(parseISO(e.start.dateTime))

StartDayNumber(e) ==
    IF Truthy(e.start.dateTime) THEN LocalDay(parseISO(e.start.dateTime))
    ELSE DayNumber(e.start.date)

(* C2: an event whose effective end day is earlier than its start day is   *)
(* clamped, not dropped: it is in eventsByDay exactly once, under its      *)
(* start day.                                                              *)
C2_ClampedNotDropped ==
    \A e \in Fetched :
        EndsBeforeStartDay(e) => OnExactly(e, StartDayNumber(e), StartDayNumber(e))

(* C3: a timed event with start.dateTime and end.dateTime whose end day is *)
(* not before its start day is in eventsByDay once under every local day   *)
(* from the day of its start instant to the day of its end instant, and    *)
(* under no other; 23:00 on day D to 01:00 on day D+1 is under D and D+1.  *)
C3_TimedSpan ==
    /\ \A e \in Fetched :
          HasBothDateTimes(e) /\ ~EndsBeforeStartDay(e)
             => OnExactly(e, LocalDay(parseISO(e.start.dateTime)),
                          LocalDay(parseISO(e.end.dateTime)))
    /\ (LateNight \in Fetched /\ tz = -240)
          => DaysHolding(LateNight) = {Key0601, Key0602}

C3_Witness ==
    /\ ~loading
    /\ tz = -240
    /\ LateNight \in Fetched
    /\ Cardinality(DaysHolding(LateNight)) = 2

MaterializedKeys(e) ==
    IF ~Truthy(StartOf(e)) THEN {}
    ELSE LET range == EventRange(e)
         IN  {KeyOfDay(n) : n \in LocalDay(range[1])..LocalDay(range[2])}

RECURSIVE SumLen(_, _)
SumLen(index, keys) ==
    IF keys = {} THEN 0
    ELSE LET k == CHOOSE x \in keys : TRUE
         IN  Len(index[k]) + SumLen(index, keys \ {k})

RECURSIVE SumCard(_)
SumCard(es) ==
    IF es = {} THEN 0
    ELSE LET e == CHOOSE x \in es : TRUE
         IN  Cardinality(MaterializedKeys(e)) + SumCard(es \ {e})

(* C5: bucketing conserves occurrences: every materialized (day, event)    *)
(* pair is in the index exactly once, the index holds nothing else, and    *)
(* the counts agree, before and after the per-day sort of a render.        *)
C5_Conservation ==
    /\ \A e \in Fetched : DaysHolding(e) = MaterializedKeys(e)
    /\ \A k \in DOMAIN eventsByDay :
          /\ eventsByDay[k] # <<>>
          /\ \A i \in DOMAIN eventsByDay[k] :
                /\ eventsByDay[k][i] \in Fetched
                /\ Count(eventsByDay[k], eventsByDay[k][i]) = 1
    /\ SumLen(eventsByDay, DOMAIN eventsByDay) = SumCard(Fetched)

C5_Witness ==
    /\ ~loading
    /\ \E k \in DOMAIN eventsByDay : k \in WeekKeys(selectedDate) /\ Len(eventsByDay[k]) >= 2
    /\ \E e \in Fetched : Cardinality(DaysHolding(e)) >= 2

\* UTF-16 code unit of the characters of an ISO date or date-time.
CodeUnit(c) ==
    CASE c = "+" -> 43
      [] c = "-" -> 45
      [] c = "." -> 46
      [] c = ":" -> 58
      [] c = "T" -> 84
      [] c = "Z" -> 90
      [] OTHER -> 48 + DigitVal(c)

\* Lexicographic comparison of two raw strings by code unit: -1, 0 or 1.
RECURSIVE LexCompareFrom(_, _, _)
LexCompareFrom(a, b, i) ==
    IF i > Len(a) /\ i > Len(b) THEN 0
    ELSE IF i > Len(a) THEN -1
    ELSE IF i > Len(b) THEN 1
    ELSE IF CodeUnit(a[i]) < CodeUnit(b[i]) THEN -1
    ELSE IF CodeUnit(a[i]) > CodeUnit(b[i]) THEN 1
    ELSE LexCompareFrom(a, b, i + 1)

LexCompare(a, b) == LexCompareFrom(a, b, 1)

Sign(n) == IF n < 0 THEN -1 ELSE IF n > 0 THEN 1 ELSE 0

IndexIn(list, e) == CHOOSE i \in DOMAIN list : list[i] = e

\* The buckets the last render displayed (and sorted).
RenderedKeys ==
    IF loading THEN {} ELSE DOMAIN eventsByDay \cap WeekKeys(selectedDate)

IsPrefix(p, s) == Len(p) <= Len(s) /\ SubSeq(s, 1, Len(p)) = p

(* C6: in every rendered day bucket the events are in ascending order of   *)
(* their start string, and events with the same start string keep the      *)
(* order they have in the fetched list, on a first and on a later render.  *)
C6_SortedStable ==
    \A k \in RenderedKeys :
        \A i, j \in DOMAIN eventsByDay[k] :
            i < j =>
               LET a == eventsByDay[k][i]
                   b == eventsByDay[k][j]
               IN  /\ LexCompare(StartOf(a), StartOf(b)) <= 0
                   /\ StartOf(a) = StartOf(b) => IndexIn(events, a) < IndexIn(events, b)

(* C7: the comparator of the per-day sort orders two events of a bucket    *)
(* exactly as the lexicographic comparison of their raw start strings      *)
(* does, and an all-day event dated D precedes every timed event whose     *)
(* start.dateTime begins with D.                                           *)
C7_ComparatorIsLexicographic ==
    \A k \in RenderedKeys :
        \A i, j \in DOMAIN eventsByDay[k] :
            LET a == eventsByDay[k][i]
                b == eventsByDay[k][j]
            IN  /\ Sign(CompareStart(a, b)) = LexCompare(StartOf(a), StartOf(b))
                /\ (~Truthy(a.start.dateTime) /\ Truthy(b.start.dateTime)
                      /\ IsPrefix(a.start.date, b.start.dateTime))
                     => CompareStart(a, b) < 0 /\ i < j

----------------------------------------------------------------------------
(* Properties of parseMeal.                                                *)

\* Whether a title has the shape <slot keyword>[:]?<blanks><remainder>: some slot
\* keyword, in any letter case, then an optional colon, optional white space and
\* at least one more character.
HasSlotPattern(s) ==
    \E i \in 1..Len(s), k \in DOMAIN MealKeywords :
        /\ KeywordAt(s, i, MealKeywords[k])
        /\ LET p == i + Len(MealKeywords[k])
           IN  \E c \in {0, 1}, r \in p..Len(s) :
                   /\ c = 1 => s[p] = ":"
                   /\ r >= p + c
                   /\ \A x \in (p + c)..(r - 1) : IsSpace(s[x])
                   /\ IsDot(s[r])

\* The slot keyword, in title case, that a matched keyword text stands for.
Canonical(text) ==
    IF \E k \in DOMAIN MealKeywords : toLowerCase(MealKeywords[k]) = toLowerCase(text)
    THEN MealKeywords[CHOOSE k \in DOMAIN MealKeywords :
                          toLowerCase(MealKeywords[k]) = toLowerCase(text)]
    ELSE <<>>

WasParsed == parsed # NotParsed

TitleDinnerTacoNight == <<"D", "i", "n", "n", "e", "r", ":", " ", "T", "a", "c", "o", " ", "N", "i", "g", "h", "t">>
TitleLowerDinnerTacos == <<"d", "i", "n", "n", "e", "r", ":", " ", "t", "a", "c", "o", "s">>
TitleGrocery == <<"G", "r", "o", "c", "e", "r", "y", " ", "p", "i", "c", "k", "u", "p">>

(* C8: for a title with a slot keyword (any letter case, optional colon)   *)
(* and a remainder, parseMeal returns the keyword in title case as the     *)
(* slot and the trimmed remainder as the name: 'Dinner: Taco Night' gives  *)
(* Dinner / 'Taco Night', 'dinner: tacos' gives slot 'Dinner'.             *)
C8_SlotCanonicalized ==
    (WasParsed /\ HasSlotPattern(mealEvent.summary)) =>
        /\ parsed.result.type = Canonical(MealMatch(mealEvent.summary).type)
        /\ parsed.result.name = trim(MealMatch(mealEvent.summary).rest)
        /\ mealEvent.summary = TitleDinnerTacoNight =>
               parsed.result.type = <<"D", "i", "n", "n", "e", "r">> /\ parsed.result.name = <<"T", "a", "c", "o", " ", "N", "i", "g", "h", "t">>
        /\ mealEvent.summary = TitleLowerDinnerTacos => parsed.result.type = <<"D", "i", "n", "n", "e", "r">>

(* C9: for a title without the slot pattern, MealPlan's parseMeal returns  *)
(* the unlabeled slot 'Meal' and the unmodified title as the name, the     *)
(* placeholder 'Untitled' for an empty title, and no description when the  *)
(* description is empty.                                                   *)
C9_UnlabeledFallback ==
    (WasParsed /\ parsed.by = "MealPlan" /\ ~HasSlotPattern(mealEvent.summary)) =>
        /\ parsed.result.type = MealType
        /\ parsed.result.name =
              (IF mealEvent.summary = <<>> THEN Untitled ELSE mealEvent.summary)
        /\ mealEvent.description = <<>> => parsed.result.description = Null
        /\ mealEvent.summary = TitleGrocery => parsed.result.name = TitleGrocery

C9_Witness ==
    /\ WasParsed
    /\ parsed.by = "MealPlan"
    /\ mealEvent.summary = <<>>
    /\ mealEvent.description = <<>>
    /\ parsed.result.name = Untitled
    /\ parsed.result.description = Null

(* C10 as stated: MealPlan's parseMeal surfaces the description exactly    *)
(* when it is non-empty and is not the same string as the extracted name   *)
(* or the title; otherwise the returned description is null.               *)
C10_ExactStringCheck ==
    (WasParsed /\ parsed.by = "MealPlan") =>
        IF /\ mealEvent.description # <<>>
           /\ mealEvent.description # parsed.result.name
           /\ mealEvent.description # mealEvent.summary
        THEN parsed.result.description = Surfaced(mealEvent.description)
        ELSE parsed.result.description = Null

(* C10 amended: MealPlan's parseMeal surfaces the description exactly when *)
(* it is non-empty, its trimmed text differs from the trimmed title and,   *)
(* when a slot keyword matched, its trimmed text differs from the          *)
(* extracted name with letter case ignored; otherwise it returns null.     *)
C10_NormalizedCheck ==
    (WasParsed /\ parsed.by = "MealPlan") =>
        IF /\ mealEvent.description # <<>>
           /\ trim(mealEvent.description) # trim(mealEvent.summary)
           /\ (parsed.result.type # MealType =>
                  toLowerCase(trim(mealEvent.description))
                     # toLowerCase(parsed.result.name))
        THEN parsed.result.description = Surfaced(mealEvent.description)
        ELSE parsed.result.description = Null

C10_Witness ==
    /\ WasParsed
    /\ parsed.by = "MealPlan"
    /\ mealEvent.description # <<>>
    /\ mealEvent.description # parsed.result.name
    /\ mealEvent.description # mealEvent.summary
    /\ parsed.result.type # MealType
    /\ parsed.result.description = Null

----------------------------------------------------------------------------
(* Dashboard.tsx: the 3-day calendar card, next to the Calendar week view. *)

\* An upstream item without a start object.
NoStartObject ==
    [Event("noStartObject", None, None, TRUE, None, DateStr(2024, 6, 2), "family")
        EXCEPT !.hasStart = FALSE]

\* Event lists that may hold items outside the CalendarEvent type.
UntypedEventLists ==
    {l \in UNION {[1..n -> EventPool \cup {NoStartObject}] : n \in 0..MaxEvents} :
        \A i, j \in DOMAIN l : i # j => l[i] # l[j]}

\* loadCompactCalendar asks for one calendar: the one whose summary contains
\* 'family' (calendarIds: [selectedId]).
DashboardResponse(evs) == SelectSeq(evs, LAMBDA e : e.calendarId = "family")

\* for (const ev of calEvents) { start = ...; if (!start) continue;
\*   d = format(parseISO(start), 'yyyy-MM-dd'); map[d].push(ev) }
\* MealPlan.tsx groups its events the same way (inside a try block).
RECURSIVE GroupByStartDayFrom(_, _, _)
GroupByStartDayFrom(map, evs, i) ==
    IF i > Len(evs) THEN map
    ELSE IF ~Truthy(StartOf(evs[i])) THEN GroupByStartDayFrom(map, evs, i + 1)
    ELSE GroupByStartDayFrom(
             PushEvent(map, FormatDayKey(parseISO(StartOf(evs[i]))), evs[i]), evs, i + 1)

GroupByStartDay(evs) == GroupByStartDayFrom(EmptyIndex, evs, 1)

\* threeDays: addDays(new Date(), i) for i = 0, 1, 2, as day keys.
ThreeDayKeys == {FormatDayKey(AddDays(Now, i)) : i \in 0..2}

\* The card's render: the memoized buckets of the three days are sorted in place.
DashboardRender(map) ==
    [k \in DOMAIN map |-> IF k \in ThreeDayKeys THEN SortDay(map[k]) ELSE map[k]]

\* loadCompactCalendar resolving: setCalEvents, the eventsByDay memo and the render.
LoadCompactCalendarOk ==
    /\ ~dashLoaded
    /\ calEvents' = DashboardResponse(upstream)
    /\ dashLoaded' = TRUE
    /\ IF RenderThrows(calEvents')
       THEN /\ thrown' = thrown \cup {"Dashboard"}
            /\ dashEventsByDay' = EmptyIndex
       ELSE /\ dashEventsByDay' = DashboardRender(GroupByStartDay(calEvents'))
            /\ UNCHANGED thrown
    /\ UNCHANGED <<tz, upstream, events, selectedDate, showCalendarDropdown, loading,
                   eventsByDay, mealVars, feedVars, proxyVars, policyVars, selectVars,
                   laterVars>>

DashInit ==
    /\ tz \in TimeZones
    /\ upstream \in UntypedEventLists
    /\ events = <<>>
    /\ selectedDate = Now
    /\ showCalendarDropdown = FALSE
    /\ loading = TRUE
    /\ eventsByDay = RenderLoading(<<>>)
    /\ thrown = {}
    /\ MealIdle
    /\ ViewsIdle
    /\ ProxyIdle
    /\ PolicyIdle
    /\ SelectIdle
    /\ LaterIdle

DashNext == LoadCalendarEventsOk \/ LoadCompactCalendarOk \/ ToggleDropdown

DashSpec == DashInit /\ [][DashNext]_vars

\* An event the reductions can place: it has a start object with a dateTime or a date.
UsableStart(e) == e.hasStart /\ Truthy(StartOf(e))

UsableOnly(evs) == SelectSeq(evs, UsableStart)

(* C11: an event without a usable start, a missing start object included,  *)
(* is skipped and the others are bucketed as if it were not in the list:   *)
(* no view throws, and each view's day index is the index of the list      *)
(* without its unusable events.                                            *)
C11_UnusableStartSkipped ==
    /\ thrown = {}
    /\ ~loading => eventsByDay = RenderWeek(UsableOnly(events), selectedDate)
    /\ dashLoaded =>
          dashEventsByDay = DashboardRender(GroupByStartDay(UsableOnly(calEvents)))

----------------------------------------------------------------------------
(* Calendar week view: mixed start / end pairs, owning calendars, re-renders. *)

HasTimedStartDateEnd(e) ==
    /\ Truthy(e.start.dateTime)
    /\ e.hasEnd
    /\ Truthy(e.end.date)
    /\ ~Truthy(e.end.dateTime)

(* C12: a fetched event that pairs start.dateTime with end.date and has no *)
(* end.dateTime is in no bucket of eventsByDay.                            *)
C12_MixedPairSkipped ==
    \A e \in Fetched : HasTimedStartDateEnd(e) => DaysHolding(e) = {}

CalendarIds == {"family", "work"}

\* The event list with every owning calendar blanked out: two lists that are
\* identical except for their calendarId values blank to the same list.
Blanked(evs) == [i \in DOMAIN evs |-> [evs[i] EXCEPT !.calendarId = ""]]

\* A day index with the owning calendars blanked out.
WithoutCalendar(index) == [k \in DOMAIN index |-> Blanked(index[k])]

\* What the current view of the Calendar component computes for a list.
RenderOf(evs) ==
    IF loading THEN RenderLoading(evs) ELSE RenderWeek(evs, selectedDate)

(* C13: the day index of the component has the same day keys and,         *)
(* calendarId aside, the same events in the same order in every bucket as  *)
(* the day index computed from the fetched list with its calendarId values *)
(* blanked out; hence any two lists that differ only in calendarId values  *)
(* give the same keys and the same bucket contents and order.              *)
C13_CalendarIdIrrelevant ==
    WithoutCalendar(RenderOf(Blanked(events))) = WithoutCalendar(eventsByDay)

C13_Witness ==
    /\ ~loading
    /\ \E k \in RenderedKeys :
          \E i, j \in DOMAIN eventsByDay[k] :
              eventsByDay[k][i].calendarId # eventsByDay[k][j].calendarId

----------------------------------------------------------------------------
(* The ical-feed function and the MealPlan week view that calls it.        *)

\* Date.prototype.toISOString: "yyyy-MM-ddTHH:mm:ss.000Z".
toISOString(t) ==
    LET c == DaysToCivil(t \div MinutesPerDay)
        m == t % MinutesPerDay
    IN  DateStr(c[1], c[2], c[3]) \o <<"T">> \o Pad2(m \div 60) \o <<":">> \o Pad2(m % 60)
            \o <<":", "0", "0", ".", "0", "0", "0", "Z">>

\* An ICAL.Time: a DATE value, or a DATE-TIME value in UTC.
ICALDate(y, m, d) == [isDate |-> TRUE, day |-> CivilToDays(y, m, d), minute |-> 0]

ICALDateTime(y, m, d, h, mi) ==
    [isDate |-> FALSE, day |-> CivilToDays(y, m, d), minute |-> h * 60 + mi]

\* ICAL.Time.toJSDate: a DATE value is midnight in the zone of the function's host.
toJSDate(t, serverTz) ==
    IF t.isDate THEN t.day * MinutesPerDay - serverTz
    ELSE t.day * MinutesPerDay + t.minute

\* ICAL.Time.toString.
ICALToString(t) ==
    LET c == DaysToCivil(t.day)
    IN  IF t.isDate THEN DateStr(c[1], c[2], c[3])
        ELSE DateTimeStr(c[1], c[2], c[3], t.minute \div 60, t.minute % 60, ZoneUTC)

NoTitle == <<"N", "o", " ", "T", "i", "t", "l", "e">>

\* The object the function returns for a VEVENT inside the range.
FeedEvent(v, serverTz) ==
    LET start == toJSDate(v.startDate, serverTz)
        end == toJSDate(v.endDate, serverTz)
    IN  [id |-> IF Truthy(v.uid) THEN v.uid ELSE ICALToString(v.startDate),
         summary |-> IF Truthy(v.summary) THEN v.summary ELSE NoTitle,
         hasStart |-> TRUE,
         start |-> [dateTime |-> IF v.startDate.isDate THEN None ELSE toISOString(start),
                    date |-> IF v.startDate.isDate THEN SubSeq(toISOString(start), 1, 10)
                             ELSE None],
         hasEnd |-> TRUE,
         end |-> [dateTime |-> IF v.endDate.isDate THEN None ELSE toISOString(end),
                  date |-> IF v.endDate.isDate THEN SubSeq(toISOString(end), 1, 10)
                           ELSE None]]

\* if (start < timeMinDate || start > timeMaxDate) return null
InRange(v, timeMin, timeMax, serverTz) ==
    LET start == toJSDate(v.startDate, serverTz)
    IN  ~(start < parseISO(timeMin) \/ start > parseISO(timeMax))

\* events.map(...).filter(event => event !== null)
IcalFeedEvents(vevents, timeMin, timeMax, serverTz) ==
    LET kept == SelectSeq(vevents, LAMBDA v : InRange(v, timeMin, timeMax, serverTz))
    IN  [i \in DOMAIN kept |-> FeedEvent(kept[i], serverTz)]

\* The deployed function runs in UTC; under netlify dev it runs in the host's zone.
ServerZones == {0, tz}

\* date-fns startOfWeek(d, { weekStartsOn: 1 }): local midnight of the Monday on or
\* before d (2024-01-01, day number 0, is a Monday).
startOfWeek(d) == AddDays(SetHoursZero(d), -(LocalDay(d) % 7))

\* weekDays: Monday to Friday of the selected week, as day keys.
MealWeekKeys(sel) == {FormatDayKey(AddDays(startOfWeek(sel), i)) : i \in 0..4}

\* One render of the meal-plan week view.
MealRender(evs, sel) ==
    LET byDay == GroupByStartDay(evs)
    IN  [k \in DOMAIN byDay |->
            IF k \in MealWeekKeys(sel) THEN SortDay(byDay[k]) ELSE byDay[k]]

\* loadMealEvents: the request with timeMin / timeMax, the function's answer,
\* setEvents and the render.
LoadMealEventsOk ==
    /\ ~mealLoaded
    /\ \E serverTz \in ServerZones :
          mealEvents' = IcalFeedEvents(feed,
                                       toISOString(startOfWeek(mealSelectedDate)),
                                       toISOString(AddDays(startOfWeek(mealSelectedDate), 4)),
                                       serverTz)
    /\ mealLoaded' = TRUE
    /\ mealEventsByDay' = MealRender(mealEvents', mealSelectedDate)
    /\ UNCHANGED <<calVars, mealVars, dashVars, feed, mealSelectedDate, proxyVars,
                   policyVars, selectVars,
                   laterVars>>

\* setSelectedDate: the render with the new week, and the effect that reloads.
MealSelectDate(d) ==
    /\ mealLoaded
    /\ mealSelectedDate' = d
    /\ mealLoaded' = FALSE
    /\ mealEventsByDay' = MealRender(mealEvents, d)
    /\ UNCHANGED <<calVars, mealVars, dashVars, feed, mealEvents, proxyVars, policyVars,
                   selectVars,
                   laterVars>>

MealPrevWeek ==
    /\ mealSelectedDate > AddDays(Now, -7 * NavWeeks)
    /\ MealSelectDate(AddDays(mealSelectedDate, -7))

MealNextWeek ==
    /\ mealSelectedDate < AddDays(Now, 7 * NavWeeks)
    /\ MealSelectDate(AddDays(mealSelectedDate, 7))

MealToday == MealSelectDate(Now)

\* VEVENTs of the feed: the week of 2024-05-27 (Monday) to 2024-05-31 (Friday)
\* holds today's week; a VEVENT may lack a UID or a SUMMARY.
VEvent(uid, summary, startDate, endDate) ==
    [uid |-> uid, summary |-> summary, startDate |-> startDate, endDate |-> endDate]

MondayOats ==
    VEvent(<<"u", "1">>, <<"O", "a", "t", "s">>, ICALDate(2024, 5, 27), ICALDate(2024, 5, 28))
WednesdayTacos ==
    VEvent(None, <<"T", "a", "c", "o", "s">>, ICALDateTime(2024, 5, 29, 22, 0), ICALDateTime(2024, 5, 29, 23, 0))
WednesdaySoup ==
    VEvent(None, <<"S", "o", "u", "p">>, ICALDateTime(2024, 5, 29, 22, 0), ICALDateTime(2024, 5, 29, 23, 0))
ThursdayUntitled ==
    VEvent(<<"u", "2">>, None, ICALDateTime(2024, 5, 30, 16, 0), ICALDateTime(2024, 5, 30, 17, 0))
FridayPizza ==
    VEvent(<<"u", "3">>, <<"P", "i", "z", "z", "a">>, ICALDateTime(2024, 5, 31, 22, 0), ICALDateTime(2024, 5, 31, 23, 0))
FridayAllDay ==
    VEvent(<<"u", "4">>, <<"F", "e", "a", "s", "t">>, ICALDate(2024, 5, 31), ICALDate(2024, 6, 1))
ThreeDayTrip ==
    VEvent(<<"u", "5">>, <<"T", "r", "i", "p">>, ICALDate(2024, 5, 28), ICALDate(2024, 5, 31))
NextTuesdaySalad ==
    VEvent(None, <<"S", "a", "l", "a", "d">>, ICALDateTime(2024, 6, 4, 16, 0), ICALDateTime(2024, 6, 4, 17, 0))

FeedPool ==
    {MondayOats, WednesdayTacos, WednesdaySoup, ThursdayUntitled, FridayPizza,
     FridayAllDay, ThreeDayTrip, NextTuesdaySalad}

FeedLists ==
    {l \in UNION {[1..n -> FeedPool] : n \in 0..MaxEvents} :
        \A i, j \in DOMAIN l : i # j => l[i] # l[j]}

\* MealPlan mounted with a saved feed URL: the first load is in flight.
FeedInit ==
    /\ tz \in TimeZones
    /\ feed \in FeedLists
    /\ mealSelectedDate = Now
    /\ mealEvents = <<>>
    /\ mealLoaded = FALSE
    /\ mealEventsByDay = EmptyIndex
    /\ calEvents = <<>>
    /\ dashLoaded = FALSE
    /\ dashEventsByDay = EmptyIndex
    /\ CalendarIdle
    /\ MealIdle
    /\ ProxyIdle
    /\ PolicyIdle
    /\ SelectIdle
    /\ LaterIdle

FeedNext == LoadMealEventsOk \/ MealPrevWeek \/ MealNextWeek \/ MealToday

FeedSpec == FeedInit /\ [][FeedNext]_vars

\* The events of a bucket, as a set.
BucketSet(index, k) ==
    IF k \in DOMAIN index THEN {index[k][i] : i \in DOMAIN index[k]} ELSE {}

(* C15: on every day the dashboard displays, and on every day the meal     *)
(* plan displays, the view's bucket holds the same events as the bucket    *)
(* the calendar week view's materialization builds from the same list.     *)
C15_SameMaterialization ==
    /\ (dashLoaded /\ "Dashboard" \notin thrown) =>
          \A k \in ThreeDayKeys :
              BucketSet(dashEventsByDay, k) = BucketSet(GroupByDay(calEvents), k)
    /\ mealLoaded =>
          \A k \in MealWeekKeys(mealSelectedDate) :
              BucketSet(mealEventsByDay, k) = BucketSet(GroupByDay(mealEvents), k)

\* The local day on which a VEVENT starts.
FeedStartDay(v) ==
    IF v.startDate.isDate THEN v.startDate.day ELSE LocalDay(toJSDate(v.startDate, 0))

\* The VEVENT is shown under day key k.
ShownUnder(v, k) ==
    \E serverTz \in ServerZones : FeedEvent(v, serverTz) \in BucketSet(mealEventsByDay, k)

(* C17: once the week is loaded, every VEVENT of the feed that starts on   *)
(* one of the five displayed days, at any time of that day, is in the      *)
(* meal plan's bucket of that day.                                         *)
C17_WindowInclusive ==
    mealLoaded =>
        \A i \in DOMAIN feed :
            KeyOfDay(FeedStartDay(feed[i])) \in MealWeekKeys(mealSelectedDate)
               => ShownUnder(feed[i], KeyOfDay(FeedStartDay(feed[i])))

\* The returned event stems from a VEVENT without a UID.
IdLess(a) ==
    \E i \in DOMAIN feed :
        /\ ~Truthy(feed[i].uid)
        /\ \E serverTz \in ServerZones : FeedEvent(feed[i], serverTz) = a

(* C18: every event the function returns has a non-empty id, and two       *)
(* returned events that stem from VEVENTs without a UID and differ in      *)
(* start time or in title have different ids.                              *)
C18_CompositeFallbackId ==
    /\ \A i \in DOMAIN mealEvents : Truthy(mealEvents[i].id)
    /\ \A i, j \in DOMAIN mealEvents :
          (/\ IdLess(mealEvents[i])
           /\ IdLess(mealEvents[j])
           /\ \/ StartOf(mealEvents[i]) # StartOf(mealEvents[j])
              \/ mealEvents[i].summary # mealEvents[j].summary)
             => mealEvents[i].id # mealEvents[j].id

----------------------------------------------------------------------------
(* The serverless functions: calendar-events, google-tasks and ical-feed.  *)

Functions == {"calendar-events", "google-tasks", "ical-feed"}

\* A request: its method, the action of its body ("" when absent), whether the
\* arguments the action needs are in the body (timeMin / timeMax, taskListId,
\* feedUrl), its Authorization header, and whether googleAccessToken is set.
Requests ==
    [fn : Functions,
     method : {"OPTIONS", "GET", "POST"},
     action : {"", "known", "bogus"},
     complete : BOOLEAN,
     auth : {"none", "notBearer", "bearerInvalid", "bearerValid"},
     googleAccessToken : BOOLEAN]

Receive(req) ==
    /\ pc \in {"idle", "done"}
    /\ request' = req
    /\ pc' = "entry"
    /\ user' = "unknown"
    /\ fetched' = {}
    /\ response' = 0
    /\ UNCHANGED <<calVars, mealVars, viewVars, policyVars, selectVars,
                   laterVars>>

Respond(status) ==
    /\ response' = status
    /\ pc' = "done"

\* calendar-events and google-tasks after the token check: googleAccessToken,
\* then the action's branch, which issues the upstream fetch.
Dispatch ==
    IF ~request.googleAccessToken THEN Respond(400) /\ UNCHANGED fetched
    ELSE IF request.action = "bogus" THEN Respond(400) /\ UNCHANGED fetched
    ELSE IF ~request.complete THEN Respond(400) /\ UNCHANGED fetched
    ELSE /\ fetched' = fetched \cup {"googleapis"}
         /\ pc' = "upstream"
         /\ UNCHANGED response

\* The handler from its entry to its first await or return.
HandlerEntry ==
    /\ pc = "entry"
    /\ IF request.method = "OPTIONS" THEN Respond(200) /\ UNCHANGED <<user, fetched>>
       ELSE IF request.method # "POST" THEN Respond(405) /\ UNCHANGED <<user, fetched>>
       ELSE IF request.fn = "ical-feed"
       THEN IF ~request.complete THEN Respond(400) /\ UNCHANGED <<user, fetched>>
            ELSE /\ fetched' = fetched \cup {"feedUrl"}
                 /\ pc' = "upstream"
                 /\ UNCHANGED <<user, response>>
       ELSE IF request.action = "" THEN Respond(400) /\ UNCHANGED <<user, fetched>>
       ELSE IF request.auth \in {"none", "notBearer"}
       THEN Respond(401) /\ UNCHANGED <<user, fetched>>
       ELSE /\ pc' = "getUser"
            /\ UNCHANGED <<user, fetched, response>>
    /\ UNCHANGED <<request, calVars, mealVars, viewVars, policyVars, selectVars,
                   laterVars>>

\* await supabase.auth.getUser(token) returning, and what follows it.
GetUserReturns ==
    /\ pc = "getUser"
    /\ user' = IF request.auth = "bearerValid" THEN "signedIn" ELSE "none"
    /\ IF user' = "none" THEN Respond(401) /\ UNCHANGED fetched
       ELSE Dispatch
    /\ UNCHANGED <<request, calVars, mealVars, viewVars, policyVars, selectVars,
                   laterVars>>

\* The upstream fetch returning: its failure status is passed on.
UpstreamReturns(ok) ==
    /\ pc = "upstream"
    /\ Respond(IF ok THEN 200 ELSE 502)
    /\ UNCHANGED <<request, user, fetched, calVars, mealVars, viewVars, policyVars,
                   selectVars,
                   laterVars>>

ProxyInit ==
    /\ tz = 0
    /\ CalendarIdle
    /\ MealIdle
    /\ ViewsIdle
    /\ ProxyIdle
    /\ PolicyIdle
    /\ SelectIdle
    /\ LaterIdle

ProxyNext ==
    \/ \E req \in Requests : Receive(req)
    \/ HandlerEntry
    \/ GetUserReturns
    \/ \E ok \in BOOLEAN : UpstreamReturns(ok)

ProxySpec == ProxyInit /\ [][ProxyNext]_vars

\* A POST whose body has everything the function asks for.
WellFormed(req) ==
    /\ req.method = "POST"
    /\ req.complete
    /\ req.fn # "ical-feed" => (req.action = "known" /\ req.googleAccessToken)

(* C16: no function has issued an upstream fetch unless getUser has        *)
(* returned a signed-in user for the request's Bearer token, and a         *)
(* well-formed request without a valid token is answered 401 with no       *)
(* upstream fetch.                                                         *)
C16_AuthenticatedForwarding ==
    /\ fetched # {} => user = "signedIn"
    /\ (pc = "done" /\ WellFormed(request) /\ request.auth # "bearerValid")
          => (response = 401 /\ fetched = {})

----------------------------------------------------------------------------
(* Row-level security of notes, tasks and subscriptions.                   *)

Families == {"A", "B"}

\* Signed-in users and the family_space_id of their profiles row ("none": the
\* user has no profiles row).
Users == {"ann", "bob", "guest"}

FamilyOf(u) == IF u = "ann" THEN "A" ELSE IF u = "bob" THEN "B" ELSE "none"

Tables == {"notes", "tasks", "subscriptions"}

Commands == {"select", "insert", "update", "delete"}

\* The policy set in force on the three tables: how rows are read and written.
\* "off": row-level security not enabled; "denied": enabled with no policy for
\* the command; "family": the profiles test; "authenticated": auth.uid() is not null.
PoliciesOff == [read |-> "off", write |-> "off"]

\* supabase/policies.sql: the read policies test the profile's family space.  Each
\* write policy names insert, update and delete in one create policy statement,
\* which the grammar of create policy does not allow: either the statement is
\* rejected and the table is left without a write policy, or it takes effect as
\* it is written.
ApplyPoliciesSql ==
    /\ \E w \in {"denied", "family"} : policies' = [read |-> "family", write |-> w]
    /\ access' = NoAccess
    /\ UNCHANGED <<calVars, mealVars, viewVars, proxyVars, selectVars,
                   laterVars>>

\* LOCAL_DEVELOPMENT.md: the simplified policies, run to fix the 403 errors.
ApplySimplifiedPolicies ==
    /\ policies' = [read |-> "authenticated", write |-> "authenticated"]
    /\ access' = NoAccess
    /\ UNCHANGED <<calVars, mealVars, viewVars, proxyVars, selectVars,
                   laterVars>>

\* exists (select 1 from profiles p where p.user_id = auth.uid()
\*         and p.family_space_id = <table>.family_space_id)
ProfileInFamily(u, row) == FamilyOf(u) = row.family_space_id

\* Whether the policies let signed-in user u run the command on the row.
Permits(u, command, row) ==
    LET rule == IF command = "select" THEN policies.read ELSE policies.write
    IN  CASE rule = "off" -> TRUE
          [] rule = "denied" -> FALSE
          [] rule = "authenticated" -> TRUE
          [] OTHER -> ProfileInFamily(u, row)

\* A signed-in user runs one statement on one row through the Supabase client.
RunStatement(u, command, row) ==
    /\ access' = [command |-> command, user |-> u, row |-> row,
                  allowed |-> Permits(u, command, row)]
    /\ UNCHANGED <<policies, calVars, mealVars, viewVars, proxyVars, selectVars,
                   laterVars>>

PolicyInit ==
    /\ tz = 0
    /\ CalendarIdle
    /\ MealIdle
    /\ ViewsIdle
    /\ ProxyIdle
    /\ policies = PoliciesOff
    /\ access = NoAccess
    /\ SelectIdle
    /\ LaterIdle

PolicyNext ==
    \/ ApplyPoliciesSql
    \/ ApplySimplifiedPolicies
    \/ \E u \in Users, command \in Commands :
          \E row \in [table : Tables, family_space_id : Families] :
              RunStatement(u, command, row)

PolicySpec == PolicyInit /\ [][PolicyNext]_vars

(* C19: once row-level-security policies of the repository are in force, a *)
(* signed-in user's select, insert, update or delete of a notes, tasks or  *)
(* subscriptions row is let through only if the user's profile belongs to  *)
(* the row's family space.                                                 *)
C19_OwnerScoped ==
    (policies # PoliciesOff /\ access # NoAccess /\ access.allowed)
        => FamilyOf(access.user) = access.row.family_space_id

----------------------------------------------------------------------------
(* Calendar.tsx: the calendar selection of the 'Calendars' dropdown.       *)

AvailableIds == CalendarIds \cup {"school"}

\* calendars, once listCalendars has answered with at least one calendar.
CalendarLists ==
    {l \in UNION {[1..n -> [id : AvailableIds]] : n \in 1..Cardinality(AvailableIds)} :
        \A i, j \in DOMAIN l : i # j => l[i] # l[j]}

\* A non-empty selection, as the stored preferences or the default left it.
InitialSelections == UNION {[1..n -> AvailableIds] : n \in 1..MaxSelected}

\* selectedCalendarIds.includes(calendarId)
Includes(ids, calendarId) == \E i \in DOMAIN ids : ids[i] = calendarId

\* [...new Set(ids)]: first occurrences, in order.
RECURSIVE UniqueFrom(_, _, _)
UniqueFrom(seen, ids, i) ==
    IF i > Len(ids) THEN seen
    ELSE UniqueFrom(IF Includes(seen, ids[i]) THEN seen ELSE Append(seen, ids[i]),
                    ids, i + 1)

\* newIds of toggleCalendar.
ToggledIds(ids, calendarId) ==
    IF Includes(ids, calendarId) THEN SelectSeq(ids, LAMBDA id : id # calendarId)
    ELSE UniqueFrom(<<>>, Append(ids, calendarId), 1)

\* setSelectedCalendarIds: the render, and the load effect on selectedCalendarIds,
\* whose synchronous part sets loading.
SetSelectedCalendarIds(newIds) ==
    /\ selectedCalendarIds' = newIds
    /\ loading' = TRUE
    /\ eventsByDay' = RenderLoading(events)
    /\ UNCHANGED <<tz, upstream, events, selectedDate, showCalendarDropdown, thrown,
                   calendars, mealVars, viewVars, proxyVars, policyVars,
                   laterVars>>

\* The dropdown's controls are on screen: the week view is shown and the
\* dropdown is open.
DropdownShown ==
    /\ ~loading
    /\ "Calendar" \notin thrown
    /\ showCalendarDropdown
    /\ calendars # <<>>

\* Mutant of ToggleCalendar: the last selected calendar can be deselected.
ToggleCalendarUnguarded(calendarId) ==
    /\ DropdownShown
    /\ Includes([i \in DOMAIN calendars |-> calendars[i].id], calendarId)
    /\ SetSelectedCalendarIds(ToggledIds(selectedCalendarIds, calendarId))

\* A calendar's checkbox: toggleCalendar(c.id).
ToggleCalendar(calendarId) ==
    /\ DropdownShown
    /\ Includes([i \in DOMAIN calendars |-> calendars[i].id], calendarId)
    /\ LET newIds == ToggledIds(selectedCalendarIds, calendarId)
       IN  IF Len(newIds) = 0 /\ Len(selectedCalendarIds) > 0
           THEN UNCHANGED vars
           ELSE SetSelectedCalendarIds(newIds)

\* The 'All' button.
SelectAllCalendars ==
    /\ DropdownShown
    /\ SetSelectedCalendarIds([i \in DOMAIN calendars |-> calendars[i].id])

\* The 'None' button.
SelectNoneCalendars ==
    /\ DropdownShown
    /\ IF Len(calendars) > 0 THEN SetSelectedCalendarIds(<<calendars[1].id>>)
       ELSE UNCHANGED vars

\* The Calendar component with its calendars listed, a selection in place and
\* the first load done.
SelectInit ==
    /\ tz = -240
    /\ upstream = <<>>
    /\ events = <<>>
    /\ selectedDate = Now
    /\ showCalendarDropdown = FALSE
    /\ loading = FALSE
    /\ eventsByDay = RenderWeek(<<>>, Now)
    /\ thrown = {}
    /\ calendars \in CalendarLists
    /\ selectedCalendarIds \in InitialSelections
    /\ MealIdle
    /\ ViewsIdle
    /\ ProxyIdle
    /\ PolicyIdle
    /\ LaterIdle

SelectNext ==
    \/ \E calendarId \in AvailableIds : ToggleCalendar(calendarId)
    \/ SelectAllCalendars
    \/ SelectNoneCalendars
    \/ ToggleDropdown
    \/ LoadCalendarEventsOk

SelectSpec == SelectInit /\ [][SelectNext]_vars

(* C20: starting with at least one available calendar and a non-empty      *)
(* selection, after any sequence of toggleCalendar, selectAllCalendars and *)
(* selectNoneCalendars the selection is not empty.                         *)
C20_SelectionNeverEmpty == selectedCalendarIds # <<>>

\* A handler has just changed the selection down to one calendar while others
\* are available.
C20_Witness ==
    /\ loading
    /\ Len(selectedCalendarIds) = 1
    /\ Len(calendars) > 1

----------------------------------------------------------------------------
(* calendar-events: the listEvents action.                                 *)

\* One request to Google's events endpoint answers 2xx, answers with an error
\* status, or never answers (fetch rejects).
GoogleOutcomes == {"ok", "notOk", "rejects"}

RequestableIds == CalendarIds \cup {"primary"}

AllOk == [id \in RequestableIds \cup AvailableIds |-> "ok"]

PrimaryLunch ==
    Timed("primaryLunch", DateTimeStr(2024, 6, 3, 12, 0, ZoneEDT),
          DateTimeStr(2024, 6, 3, 13, 0, ZoneEDT), "primary")

NextWeekMorning ==
    Timed("nextWeekMorning", DateTimeStr(2024, 6, 10, 10, 0, ZoneEDT),
          DateTimeStr(2024, 6, 10, 11, 0, ZoneEDT), "family")

\* The events of the account, each held by the calendar named in calendarId.
GoogleAccount == <<Morning, MorningBerlin, OneDayAllDay, PrimaryLunch, NextWeekMorning>>

\* Google's items for one calendar between timeMin and timeMax, ordered by start
\* time; an item carries no calendarId.
GoogleItems(id, timeMin, timeMax) ==
    Blanked(SortDay(SelectSeq(upstream, LAMBDA e :
        /\ e.calendarId = id
        /\ parseISO(StartOf(e)) >= timeMin
        /\ parseISO(StartOf(e)) <= timeMax)))

\* (j.items || []).map(event => ({ ..., calendarId: id }))
TagCalendar(items, id) == [i \in DOMAIN items |-> [items[i] EXCEPT !.calendarId = id]]

\* One element of results: the async callback of ids.map for a calendar whose
\* request was answered.
CalendarResult(id, timeMin, timeMax, answers) ==
    IF answers[id] = "ok"
    THEN [id |-> id, events |-> TagCalendar(GoogleItems(id, timeMin, timeMax), id),
          error |-> FALSE]
    ELSE [id |-> id, events |-> <<>>, error |-> TRUE]

\* results.flatMap(r => r.events)
RECURSIVE FlatMapEvents(_, _)
FlatMapEvents(results, i) ==
    IF i > Len(results) THEN <<>>
    ELSE results[i].events \o FlatMapEvents(results, i + 1)

\* The listEvents branch: the status code and the events of the JSON body.  A
\* rejected fetch rejects Promise.all and the handler's catch answers 500.
listEvents(req, answers) ==
    IF ~req.hasRange THEN [statusCode |-> 400, events |-> <<>>]
    ELSE LET ids == IF req.isArray /\ Len(req.calendarIds) > 0 THEN req.calendarIds
                    ELSE <<"primary">>
         IN  IF \E i \in DOMAIN ids : answers[ids[i]] = "rejects"
             THEN [statusCode |-> 500, events |-> <<>>]
             ELSE [statusCode |-> 200,
                   events |-> FlatMapEvents(
                       [i \in DOMAIN ids |->
                           CalendarResult(ids[i], req.timeMin, req.timeMax, answers)], 1)]

\* timeMin and timeMax as Calendar.tsx computes them: local midnight of the
\* first day and the last minute of the seventh.
WeekStart(sel) == SetHoursZero(sel)
WeekEnd(sel) == AddDays(SetHoursZero(sel), 7) - 1

ListRequests ==
    {[action |-> "listEvents", hasRange |-> r, timeMin |-> WeekStart(Now),
      timeMax |-> WeekEnd(Now), isArray |-> a, calendarIds |-> ids] :
        r \in BOOLEAN, a \in BOOLEAN,
        ids \in UNION {[1..n -> RequestableIds] : n \in 0..MaxSelected}}

ReceiveListEvents(req) ==
    /\ listRequest' = req
    /\ listResponse' = NoListResponse
    /\ UNCHANGED <<googleAnswers, calVars, mealVars, viewVars, proxyVars, policyVars,
                   selectVars, loadVars, sportVars, trackerVars, setupVars>>

HandleListEvents ==
    /\ listRequest # NoListRequest
    /\ listResponse = NoListResponse
    /\ listResponse' = listEvents(listRequest, googleAnswers)
    /\ UNCHANGED <<listRequest, googleAnswers, calVars, mealVars, viewVars, proxyVars,
                   policyVars, selectVars, loadVars, sportVars, trackerVars, setupVars>>

ListInit ==
    /\ tz = -240
    /\ upstream = GoogleAccount
    /\ events = <<>>
    /\ selectedDate = Now
    /\ showCalendarDropdown = FALSE
    /\ loading = TRUE
    /\ eventsByDay = RenderLoading(<<>>)
    /\ thrown = {}
    /\ listRequest = NoListRequest
    /\ googleAnswers \in [RequestableIds -> GoogleOutcomes]
    /\ listResponse = NoListResponse
    /\ MealIdle
    /\ ViewsIdle
    /\ ProxyIdle
    /\ PolicyIdle
    /\ SelectIdle
    /\ LoadIdle
    /\ SportsIdle
    /\ TrackerIdle
    /\ SetupIdle

ListNext ==
    \/ \E req \in ListRequests : ReceiveListEvents(req)
    \/ HandleListEvents

ListSpec == ListInit /\ [][ListNext]_vars

\* The ids the handler asks Google for.
RequestedIds ==
    IF listRequest.isArray /\ listRequest.calendarIds # <<>> THEN listRequest.calendarIds
    ELSE <<"primary">>

Answered == listRequest # NoListRequest /\ listResponse # NoListResponse

\* How many times id is requested.
TimesRequested(id) == Cardinality({i \in DOMAIN RequestedIds : RequestedIds[i] = id})

\* The calendars of the returned events, in order, rise with the position of
\* their id in the request.
GroupedByRequestOrder(evs) ==
    \A i, j \in DOMAIN evs :
        i < j => \E p, q \in DOMAIN RequestedIds :
                    /\ p <= q
                    /\ RequestedIds[p] = evs[i].calendarId
                    /\ RequestedIds[q] = evs[j].calendarId

(* C25: a listEvents request with timeMin and timeMax is answered 200 with  *)
(* the events of every requested calendar whose upstream request succeeded, *)
(* none for a calendar whose request failed, each event tagged with the     *)
(* calendar it was fetched from, grouped in the order of the requested ids; *)
(* absent or empty calendarIds stand for ['primary'].                       *)
C25_PerCalendarTolerance ==
    (Answered /\ listRequest.hasRange) =>
        /\ listResponse.statusCode = 200
        /\ \A id \in RequestableIds :
              LET held == GoogleItems(id, listRequest.timeMin, listRequest.timeMax)
                  got == SelectSeq(listResponse.events, LAMBDA e : e.calendarId = id)
              IN  IF googleAnswers[id] = "ok"
                  THEN /\ Len(got) = TimesRequested(id) * Len(held)
                       /\ \A i \in DOMAIN got : \E k \in DOMAIN held : Blanked(<<got[i]>>) = <<held[k]>>
                  ELSE got = <<>>
        /\ GroupedByRequestOrder(listResponse.events)

----------------------------------------------------------------------------
(* Calendar.tsx: loadCalendarEvents, the load effect, the stored calendar   *)
(* preferences and the auto-save effect.                                   *)
(*                                                                         *)
(* State updates made by a continuation of an await are batched and        *)
(* committed together; the passive effects of that commit run later, and   *)
(* always before the next update is processed.  The effects of a commit    *)
(* caused by a click run with the commit.                                  *)

MaxClicks == 2 \* clicks that start a load, after the one of the mount

FamilyCalendar ==
    [id |-> "family", primary |-> FALSE,
     summary |-> <<"F", "a", "m", "i", "l", "y", " ", "C", "a", "l", "e", "n", "d", "a", "r">>]
WorkCalendar == [id |-> "work", primary |-> TRUE, summary |-> <<"W", "o", "r", "k">>]
SchoolCalendar ==
    [id |-> "school", primary |-> FALSE, summary |-> <<"S", "c", "h", "o", "o", "l">>]

\* What listCalendars answers: no calendar, or lists whose default calendar is
\* found by name, by the primary flag, or by position.
ListedCalendars ==
    {<<>>, <<WorkCalendar, FamilyCalendar>>, <<SchoolCalendar, WorkCalendar>>,
     <<SchoolCalendar>>}

\* profiles.default_calendar_ids: what an earlier session saved; a calendar
\* saved then may be gone from the account now.
StoredPreferences ==
    {<<>>, <<"work">>, <<"gone">>, <<"gone", "school">>, <<"work", "family">>}

IdsOf(list) == [i \in DOMAIN list |-> list[i].id]

\* family?.id || primary?.id || list[0].id
DefaultCalendarId(list) ==
    LET lowerFamily == toLowerCase(FamilyCalendar.summary)
        isFamily(c) == toLowerCase(c.summary) = lowerFamily
        families == {i \in DOMAIN list : isFamily(list[i])}
        primaries == {i \in DOMAIN list : list[i].primary}
        first(S) == CHOOSE i \in S : \A j \in S : i <= j
    IN  IF families # {} THEN list[first(families)].id
        ELSE IF primaries # {} THEN list[first(primaries)].id
        ELSE list[1].id

\* Mutant of ValidIds: stored ids are applied as they are.
ValidIdsUnfiltered(stored, availableCalendars) == stored

\* data.default_calendar_ids.filter(id => availableIds.has(id))
ValidIds(stored, availableCalendars) ==
    SelectSeq(stored, LAMBDA id : Includes(IdsOf(availableCalendars), id))

\* A loadCalendarEvents call suspended at an await, with the state its closure
\* captured.
Call(at) ==
    [at |-> at, selectedDate |-> selectedDate, selectedCalendarIds |-> selectedCalendarIds,
     calendars |-> calendars, preferencesLoaded |-> preferencesLoaded]

Remove(seq, i) == SubSeq(seq, 1, i - 1) \o SubSeq(seq, i + 1, Len(seq))

\* What the body of the auto-save effect leaves as pending timer: the cleanup
\* of the previous run clears the old one.
AutoSave(prefs, ids, cals) ==
    IF prefs /\ Len(ids) > 0 /\ Len(cals) > 0 /\ ~isInitialLoadRef
    THEN [set |-> TRUE, preferencesLoaded |-> prefs, selectedCalendarIds |-> ids]
    ELSE NoTimer

\* The view the component returns.
RenderView(evs, sel, ld, err) ==
    IF ld \/ err # "none" THEN RenderLoading(evs) ELSE RenderWeek(evs, sel)

WeekViewShown == ~loading /\ error = "none" /\ "Calendar" \notin thrown

loadFrame == <<tz, upstream, thrown, session, listed, mealVars, viewVars, proxyVars,
               policyVars, listVars, sportVars, trackerVars, setupVars>>

\* What no continuation, timer or effect changes.
asyncFrame == <<clicks, loadFrame>>

\* The state a continuation starts from.
Current ==
    [events |-> events, loading |-> loading, error |-> error, calendars |-> calendars,
     selectedCalendarIds |-> selectedCalendarIds, idsSet |-> FALSE,
     preferencesLoaded |-> preferencesLoaded, isInitialLoadRef |-> isInitialLoadRef,
     refTimer |-> refTimer, calls |-> calls]

\* The state updates of one continuation, the commit, and the passive effects
\* the commit leaves to run: the load effect when setSelectedCalendarIds was
\* called, the auto-save effect when one of its dependencies changed.
Commit(n) ==
    /\ events' = n.events
    /\ loading' = n.loading
    /\ error' = n.error
    /\ calendars' = n.calendars
    /\ selectedCalendarIds' = n.selectedCalendarIds
    /\ preferencesLoaded' = n.preferencesLoaded
    /\ isInitialLoadRef' = n.isInitialLoadRef
    /\ refTimer' = n.refTimer
    /\ calls' = n.calls
    /\ eventsByDay' = RenderView(n.events, selectedDate, n.loading, n.error)
    /\ effects' = [load |-> n.idsSet,
                   save |-> \/ n.idsSet
                            \/ n.preferencesLoaded # preferencesLoaded
                            \/ Len(n.calendars) # Len(calendars)]
    /\ UNCHANGED <<selectedDate, showCalendarDropdown, saveTimer, profile, userChanged,
                   wrote, asyncFrame>>

\* Mutant of Returned: the return leaves loading as it is.
ReturnedStillLoading(n, i) == [n EXCEPT !.calls = Remove(calls, i)]

\* A return of loadCalendarEvents: every one is preceded by setLoading(false).
Returned(n, i) == [n EXCEPT !.loading = FALSE, !.calls = Remove(calls, i)]

\* After the calendars are known: with no calendar selected in the call's
\* closure the call ends with no events, otherwise it fetches the events.
FetchOrReturn(n, i) ==
    IF calls[i].selectedCalendarIds = <<>>
    THEN Returned([n EXCEPT !.events = <<>>], i)
    ELSE [n EXCEPT !.calls = [calls EXCEPT ![i].at = "listEvents"]]

\* loadCalendarEvents up to its first await.
StartLoad(cs) == IF session THEN Append(cs, Call("getSession")) ELSE cs

\* The passive effects left by the last commit.
FlushEffects ==
    /\ effects # NoEffects
    /\ calls' = IF effects.load THEN StartLoad(calls) ELSE calls
    /\ loading' = IF effects.load THEN session ELSE loading
    /\ error' = IF ~effects.load THEN error ELSE IF session THEN "none" ELSE "signIn"
    /\ saveTimer' = IF effects.save
                    THEN AutoSave(preferencesLoaded, selectedCalendarIds, calendars)
                    ELSE saveTimer
    /\ effects' = NoEffects
    /\ eventsByDay' = RenderView(events, selectedDate, loading', error')
    /\ UNCHANGED <<events, selectedDate, showCalendarDropdown, calendars,
                   selectedCalendarIds, preferencesLoaded, isInitialLoadRef, refTimer,
                   profile, userChanged, wrote, asyncFrame>>

\* supabase.auth.getSession() resolves, with or without a provider token.
GetSessionReturns(i, providerToken) ==
    /\ effects = NoEffects
    /\ i \in DOMAIN calls
    /\ calls[i].at = "getSession"
    /\ IF ~providerToken THEN Commit(Returned([Current EXCEPT !.error = "token"], i))
       ELSE IF calls[i].calendars = <<>>
       THEN Commit([Current EXCEPT !.calls = [calls EXCEPT ![i].at = "listCalendars"]])
       ELSE Commit(FetchOrReturn(Current, i))

\* The listCalendars request is answered.
ListCalendarsReturns(i, ok) ==
    /\ effects = NoEffects
    /\ i \in DOMAIN calls
    /\ calls[i].at = "listCalendars"
    /\ IF ~ok THEN Commit(Returned([Current EXCEPT !.error = "failed"], i))
       ELSE IF ~calls[i].preferencesLoaded /\ Len(listed) > 0
       THEN Commit([Current EXCEPT !.calendars = listed,
                        !.calls = [calls EXCEPT ![i].at = "loadUserPreferences"]])
       ELSE IF calls[i].selectedCalendarIds = <<>> /\ Len(listed) > 0
       THEN Commit(FetchOrReturn(
                [Current EXCEPT !.calendars = listed,
                     !.selectedCalendarIds = <<DefaultCalendarId(listed)>>,
                     !.idsSet = TRUE], i))
       ELSE Commit(FetchOrReturn([Current EXCEPT !.calendars = listed], i))

\* loadUserPreferences resolves: the profile query returned the row, returned
\* an error other than 'no rows', or threw.  A missing row, a null column and
\* an empty array all take the path of an empty profile.
LoadUserPreferencesReturns(i, outcome) ==
    LET validIds == ValidIds(profile, listed)
        found == outcome = "row" /\ Len(profile) > 0 /\ Len(validIds) > 0
        useDefault == ~found /\ calls[i].selectedCalendarIds = <<>>
    IN  /\ effects = NoEffects
        /\ i \in DOMAIN calls
        /\ calls[i].at = "loadUserPreferences"
        /\ Commit(FetchOrReturn(
               [Current EXCEPT
                    !.preferencesLoaded = TRUE,
                    !.isInitialLoadRef = IF outcome = "error" THEN isInitialLoadRef
                                         ELSE FALSE,
                    !.selectedCalendarIds =
                        IF found THEN validIds
                        ELSE IF useDefault THEN <<DefaultCalendarId(listed)>>
                        ELSE selectedCalendarIds,
                    !.idsSet = found \/ useDefault,
                    !.refTimer = refTimer \/ useDefault], i))

\* The events the function returns for a call's week and calendars.
EventsFor(date, ids) ==
    listEvents([action |-> "listEvents", hasRange |-> TRUE, timeMin |-> WeekStart(date),
                timeMax |-> WeekEnd(date), isArray |-> TRUE, calendarIds |-> ids],
               AllOk).events

\* The listEvents request is answered.
ListEventsReturns(i, ok) ==
    /\ effects = NoEffects
    /\ i \in DOMAIN calls
    /\ calls[i].at = "listEvents"
    /\ IF ok
       THEN Commit(Returned(
                [Current EXCEPT !.events = EventsFor(calls[i].selectedDate,
                                                     calls[i].selectedCalendarIds)], i))
       ELSE Commit(Returned([Current EXCEPT !.error = "failed"], i))

\* The 500 ms timer of the auto-save effect: saveUserPreferences with the
\* values of the render that set the timer.
SaveTimerFires ==
    /\ effects = NoEffects
    /\ saveTimer.set
    /\ saveTimer' = NoTimer
    /\ IF session /\ saveTimer.preferencesLoaded
       THEN profile' = saveTimer.selectedCalendarIds /\ wrote' = TRUE
       ELSE UNCHANGED <<profile, wrote>>
    /\ UNCHANGED <<calVars, selectVars, error, preferencesLoaded, isInitialLoadRef, calls,
                   effects, refTimer, userChanged, asyncFrame>>

\* The 100 ms timer set with the default calendar.
RefTimerFires ==
    /\ effects = NoEffects
    /\ refTimer
    /\ refTimer' = FALSE
    /\ isInitialLoadRef' = FALSE
    /\ UNCHANGED <<calVars, selectVars, error, preferencesLoaded, calls, effects,
                   saveTimer, profile, userChanged, wrote, asyncFrame>>

\* A click on the week view that sets selectedDate or selectedCalendarIds.  The
\* effects a previous commit left are run first, with that commit's values;
\* then the update is committed and its own effects run.
ClickSets(date, ids, idsSet) ==
    LET flushed == IF effects.load THEN StartLoad(calls) ELSE calls
        timer == IF effects.save
                 THEN AutoSave(preferencesLoaded, selectedCalendarIds, calendars)
                 ELSE saveTimer
    IN  /\ WeekViewShown
        /\ clicks < MaxClicks
        /\ clicks' = clicks + 1
        /\ selectedDate' = date
        /\ selectedCalendarIds' = ids
        /\ calls' = IF session
                    THEN Append(flushed, [Call("getSession") EXCEPT
                                              !.selectedDate = date,
                                              !.selectedCalendarIds = ids])
                    ELSE flushed
        /\ loading' = session
        /\ error' = IF session THEN "none" ELSE "signIn"
        /\ saveTimer' = IF idsSet THEN AutoSave(preferencesLoaded, ids, calendars)
                        ELSE timer
        /\ effects' = NoEffects
        /\ userChanged' = (userChanged \/ idsSet)
        /\ eventsByDay' = RenderView(events, date, loading', error')
        /\ UNCHANGED <<events, showCalendarDropdown, calendars, preferencesLoaded,
                       isInitialLoadRef, refTimer, profile, wrote, loadFrame>>

ClickPrevWeek ==
    /\ selectedDate > AddDays(Now, -7 * NavWeeks)
    /\ ClickSets(AddDays(selectedDate, -7), selectedCalendarIds, FALSE)

ClickNextWeek ==
    /\ selectedDate < AddDays(Now, 7 * NavWeeks)
    /\ ClickSets(AddDays(selectedDate, 7), selectedCalendarIds, FALSE)

ClickToday == ClickSets(Now, selectedCalendarIds, FALSE)

\* The 'Calendars' button of the week view.
ClickCalendars ==
    /\ error = "none"
    /\ effects = NoEffects
    /\ ToggleDropdown

\* A calendar's checkbox: toggleCalendar(c.id).
ClickCalendar(calendarId) ==
    /\ showCalendarDropdown
    /\ Includes(IdsOf(calendars), calendarId)
    /\ LET newIds == ToggledIds(selectedCalendarIds, calendarId)
       IN  /\ ~(Len(newIds) = 0 /\ Len(selectedCalendarIds) > 0)
           /\ ClickSets(selectedDate, newIds, TRUE)

\* The 'All' button: selectAllCalendars.
ClickAll ==
    /\ showCalendarDropdown
    /\ Len(calendars) > 0
    /\ ClickSets(selectedDate, IdsOf(calendars), TRUE)

\* The 'None' button: selectNoneCalendars.
ClickNone ==
    /\ showCalendarDropdown
    /\ Len(calendars) > 0
    /\ ClickSets(selectedDate, <<calendars[1].id>>, TRUE)

\* The 'Try Again' button of the error view: loadCalendarEvents.
TryAgain ==
    /\ ~loading
    /\ error # "none"
    /\ effects = NoEffects
    /\ clicks < MaxClicks
    /\ clicks' = clicks + 1
    /\ calls' = StartLoad(calls)
    /\ loading' = session
    /\ error' = IF session THEN "none" ELSE "signIn"
    /\ eventsByDay' = RenderView(events, selectedDate, loading', error')
    /\ UNCHANGED <<events, selectedDate, showCalendarDropdown, calendars,
                   selectedCalendarIds, preferencesLoaded, isInitialLoadRef, effects,
                   saveTimer, refTimer, profile, userChanged, wrote, loadFrame>>

\* The component mounted: first render committed, its effects not yet run.
LoadInit ==
    /\ tz = -240
    /\ upstream = GoogleAccount
    /\ events = <<>>
    /\ selectedDate = Now
    /\ showCalendarDropdown = FALSE
    /\ loading = TRUE
    /\ eventsByDay = RenderLoading(<<>>)
    /\ thrown = {}
    /\ calendars = <<>>
    /\ selectedCalendarIds = <<>>
    /\ session \in BOOLEAN
    /\ error = "none"
    /\ preferencesLoaded = FALSE
    /\ isInitialLoadRef = TRUE
    /\ calls = <<>>
    /\ effects = [load |-> TRUE, save |-> TRUE]
    /\ saveTimer = NoTimer
    /\ refTimer = FALSE
    /\ listed \in ListedCalendars
    /\ profile \in StoredPreferences
    /\ userChanged = FALSE
    /\ wrote = FALSE
    /\ clicks = 0
    /\ MealIdle
    /\ ViewsIdle
    /\ ProxyIdle
    /\ PolicyIdle
    /\ ListIdle
    /\ SportsIdle
    /\ TrackerIdle
    /\ SetupIdle

LoadNext ==
    \/ FlushEffects
    \/ \E i \in DOMAIN calls, providerToken \in BOOLEAN : GetSessionReturns(i, providerToken)
    \/ \E i \in DOMAIN calls, ok \in BOOLEAN : ListCalendarsReturns(i, ok)
    \/ \E i \in DOMAIN calls, outcome \in {"row", "error", "throws"} :
          LoadUserPreferencesReturns(i, outcome)
    \/ \E i \in DOMAIN calls, ok \in BOOLEAN : ListEventsReturns(i, ok)
    \/ SaveTimerFires
    \/ RefTimerFires
    \/ ClickPrevWeek
    \/ ClickNextWeek
    \/ ClickToday
    \/ ClickCalendars
    \/ \E calendarId \in AvailableIds : ClickCalendar(calendarId)
    \/ ClickAll
    \/ ClickNone
    \/ TryAgain

LoadSpec == LoadInit /\ [][LoadNext]_vars

(* C21: the auto-save is scheduled only once the preferences are loaded,    *)
(* and the selection applied by the initial load (stored preference or     *)
(* default calendar) neither schedules saveUserPreferences nor writes      *)
(* profiles.default_calendar_ids: only a selection change made by the user *)
(* does.                                                                   *)
C21_SaveOnlyAfterUserChange ==
    (saveTimer.set \/ wrote) => (preferencesLoaded /\ userChanged)

\* No load is awaiting a response and no effect is left to run.
Quiet == calls = <<>> /\ effects = NoEffects

(* C22: once every loadCalendarEvents call has completed, whatever the      *)
(* order of the responses, the week view holds the events fetched for the  *)
(* selected date and calendars as they are now.                            *)
C22_LatestSelectionShown ==
    (Quiet /\ WeekViewShown) =>
        events = IF selectedCalendarIds = <<>> THEN <<>>
                 ELSE EventsFor(selectedDate, selectedCalendarIds)

(* C23: every return of loadCalendarEvents leaves loading false, so with no *)
(* load in flight the 'Loading calendar events...' card is not shown.      *)
C23_NotStuckLoading == Quiet => ~loading

\* Loads have returned by each of the paths: here the last one ended in the
\* error view after the user had moved to another week.
C23_Witness ==
    /\ Quiet
    /\ error = "failed"
    /\ selectedDate # Now
    /\ calendars # <<>>

Distinct(ids) == \A i, j \in DOMAIN ids : i # j => ids[i] # ids[j]

(* C24: selectedCalendarIds holds no id twice and only ids of the loaded    *)
(* calendar list.                                                          *)
C24_SelectionWithinList ==
    /\ Distinct(selectedCalendarIds)
    /\ \A i \in DOMAIN selectedCalendarIds :
          Includes(IdsOf(calendars), selectedCalendarIds[i])

\* The stored preference named a calendar that is gone, the rest of it was
\* applied, and the user has since added a calendar.
C24_Witness ==
    /\ Includes(profile, "gone")
    /\ preferencesLoaded
    /\ userChanged
    /\ Len(selectedCalendarIds) > 1

----------------------------------------------------------------------------
(* Sports (src/CALENDAR_SETUP.md, from line 85): the season picker and the  *)
(* order of a child's sports.                                              *)

MaxSports == 2 \* sports rows of one child

FallName == <<"F", "a", "l", "l">>
WinterName == <<"W", "i", "n", "t", "e", "r">>
SpringName == <<"S", "p", "r", "i", "n", "g">>
SummerName == <<"S", "u", "m", "m", "e", "r">>

\* seasonOrder of seasonOptions: Fall -> Winter -> Spring -> Summer.
SeasonCycle == <<FallName, WinterName, SpringName, SummerName>>

\* seasonOrder of getSeasonSortValue.
SeasonIndex(name) == CHOOSE k \in DOMAIN SeasonCycle : SeasonCycle[k] = name

\* currentSeason, as its index in seasonOrder (from 0).
CurrentIndex(month) ==
    IF month >= 3 /\ month <= 5 THEN 2
    ELSE IF month >= 6 /\ month <= 8 THEN 3
    ELSE IF month >= 9 /\ month <= 11 THEN 0
    ELSE 1

\* `${seasonName} ${year}`
SeasonLabel(name, year) == name \o <<" ">> \o Pad4(year)

\* The loop of seasonOptions: year after the first i + 1 passes.
RECURSIVE YearAfter(_, _, _)
YearAfter(currentIndex, currentYear, i) ==
    IF i = 0 THEN currentYear
    ELSE IF (currentIndex + i - 1) % 4 = 1 THEN currentYear + 1
    ELSE YearAfter(currentIndex, currentYear, i - 1)

seasonOptions(now) ==
    LET currentIndex == CurrentIndex(now.month)
    IN  [k \in 1..4 |->
            SeasonLabel(SeasonCycle[((currentIndex + k - 1) % 4) + 1],
                        YearAfter(currentIndex, now.year, k - 1))]

IsDigit(c) == \E k \in DOMAIN Digits : Digits[k] = c

\* /(Spring|Summer|Fall|Winter)\s+(\d{4})/ tried at position i.
SeasonMatchAt(s, i) ==
    LET fits(name) ==
            /\ i + Len(name) - 1 <= Len(s)
            /\ SubSeq(s, i, i + Len(name) - 1) = name
            /\ SpaceRun(s, i + Len(name)) >= 1
            /\ LET q == i + Len(name) + SpaceRun(s, i + Len(name))
               IN  /\ q + 3 <= Len(s)
                   /\ \A d \in 0..3 : IsDigit(s[q + d])
        names == {k \in DOMAIN SeasonCycle : fits(SeasonCycle[k])}
    IN  IF names = {} THEN [matched |-> FALSE]
        ELSE LET k == CHOOSE n \in names : TRUE
                 q == i + Len(SeasonCycle[k]) + SpaceRun(s, i + Len(SeasonCycle[k]))
             IN  [matched |-> TRUE, seasonName |-> SeasonCycle[k], year |-> Num4(s, q)]

\* season.match(...): the leftmost match.
RECURSIVE SeasonMatchFrom(_, _)
SeasonMatchFrom(s, i) ==
    IF i > Len(s) THEN [matched |-> FALSE]
    ELSE IF SeasonMatchAt(s, i).matched THEN SeasonMatchAt(s, i)
    ELSE SeasonMatchFrom(s, i + 1)

getSeasonSortValue(season) ==
    IF season = <<>> THEN 999999
    ELSE LET match == SeasonMatchFrom(season, 1)
         IN  IF ~match.matched THEN 999999
             ELSE match.year * 10 + SeasonIndex(match.seasonName)

\* Array.prototype.sort with sortBySeason: stable, ascending by sort value.
RECURSIVE InsertBySeason(_, _, _)
InsertBySeason(sorted, x, j) ==
    IF j >= 1 /\ getSeasonSortValue(sorted[j].season) - getSeasonSortValue(x.season) > 0
    THEN InsertBySeason(sorted, x, j - 1)
    ELSE SubSeq(sorted, 1, j) \o <<x>> \o SubSeq(sorted, j + 1, Len(sorted))

RECURSIVE SortBySeasonFrom(_, _, _)
SortBySeasonFrom(sorted, list, i) ==
    IF i > Len(list) THEN sorted
    ELSE SortBySeasonFrom(InsertBySeason(sorted, list[i], Len(sorted)), list, i + 1)

sortBySeason(list) == SortBySeasonFrom(<<>>, list, 1)

Soon == <<"S", "o", "o", "n">>

\* What the season select can hold: the empty option or one of seasonOptions.
Selectable == {<<>>} \cup {seasons[k] : k \in DOMAIN seasons}

sportFrame == <<today, calVars, mealVars, viewVars, proxyVars, policyVars, selectVars,
                loadVars, listVars, trackerVars, setupVars>>

\* The first render: useMemo computes seasonOptions from new Date(), once.
FirstRender ==
    /\ seasons = <<>>
    /\ seasons' = seasonOptions(today)
    /\ UNCHANGED <<sportRows, milesSports, sportFrame>>

\* saveMilesSport: insert a row, or update the row being edited, then
\* loadSports: the rows newest first, sorted by season.
SaveMilesSport(editing, season) ==
    /\ seasons # <<>>
    /\ IF editing = 0
       THEN /\ Len(sportRows) < MaxSports
            /\ sportRows' = <<[id |-> Len(sportRows) + 1, season |-> trim(season)]>>
                            \o sportRows
       ELSE /\ editing \in DOMAIN sportRows
            /\ sportRows' = [sportRows EXCEPT ![editing].season = trim(season)]
    /\ milesSports' = sortBySeason(sportRows')
    /\ UNCHANGED <<seasons, sportFrame>>

\* The mount effect: loadSports.
LoadSports ==
    /\ seasons # <<>>
    /\ milesSports # sortBySeason(sportRows)
    /\ milesSports' = sortBySeason(sportRows)
    /\ UNCHANGED <<seasons, sportRows, sportFrame>>

Months == 1..12
Years == {2025, 2026}

\* The component before its first render; the table may hold a row whose
\* season was typed by hand.
SportsInit ==
    /\ today \in [month : Months, year : Years]
    /\ seasons = <<>>
    /\ sportRows \in {<<>>, <<[id |-> 1, season |-> Soon]>>}
    /\ milesSports = <<>>
    /\ tz = -240
    /\ CalendarIdle
    /\ MealIdle
    /\ ViewsIdle
    /\ ProxyIdle
    /\ PolicyIdle
    /\ SelectIdle
    /\ LoadIdle
    /\ ListIdle
    /\ TrackerIdle
    /\ SetupIdle

SportsNext ==
    \/ FirstRender
    \/ \E editing \in 0..MaxSports, season \in Selectable : SaveMilesSport(editing, season)
    \/ LoadSports

SportsSpec == SportsInit /\ [][SportsNext]_vars

\* The first month of the season a label names, counted in months: Spring in
\* March, Summer in June, Fall in September, Winter in December of its year.
SeasonStart(label) ==
    LET match == SeasonMatchFrom(label, 1)
        k == SeasonIndex(match.seasonName)
    IN  match.year * 12 + (IF k = 1 THEN 9 ELSE IF k = 2 THEN 12 ELSE IF k = 3 THEN 3 ELSE 6)

(* C26: sorted by getSeasonSortValue, a child's sports are in chronological *)
(* order: of two seasons the picker offers, the one that starts earlier has *)
(* the strictly smaller sort value, and a sport with an empty or           *)
(* unparseable season comes after every sport with a season.               *)
HasSeason(sport) == SeasonMatchFrom(sport.season, 1).matched

C26_SortIsChronological ==
    \A i, j \in DOMAIN milesSports :
        /\ (HasSeason(milesSports[i]) /\ HasSeason(milesSports[j])
               /\ SeasonStart(milesSports[i].season) < SeasonStart(milesSports[j].season))
              => /\ getSeasonSortValue(milesSports[i].season)
                      < getSeasonSortValue(milesSports[j].season)
                 /\ i < j
        /\ (i < j /\ HasSeason(milesSports[j])) => HasSeason(milesSports[i])

\* The season that holds a month starts in March, June, September or December.
CurrentSeasonStart(now) ==
    LET abs == now.year * 12 + now.month
    IN  abs - (now.month % 3)

\* A label names the season that starts at month `start`: the season of that
\* month with the year of that month; a winter may also carry the year in
\* which it ends.
Names(label, start) ==
    LET match == SeasonMatchFrom(label, 1)
        month == ((start - 1) % 12) + 1
        year == (start - 1) \div 12
    IN  /\ match.matched
        /\ match.seasonName = SeasonCycle[CurrentIndex(month) + 1]
        /\ \/ match.year = year
           \/ match.seasonName = WinterName /\ match.year = year + 1

(* C27: seasonOptions lists four distinct labels, the current season and    *)
(* the three that follow it, in order, none skipped or repeated, each with *)
(* its year; in January and February the current winter is followed by the *)
(* spring of the same school year.                                         *)
C27_NextFourSeasons ==
    seasons # <<>> =>
    /\ Len(seasons) = 4
    /\ \A a, b \in DOMAIN seasons : a # b => seasons[a] # seasons[b]
    /\ \A k \in DOMAIN seasons : Names(seasons[k], CurrentSeasonStart(today) + 3 * (k - 1))

----------------------------------------------------------------------------
(* Car (src/unnamed/part_005) and Health (src/src/components/Health.tsx):   *)
(* one record per car or person, edited one row at a time.  The model      *)
(* follows one car (Mazda) and one person; updated_at is left out.         *)

MaxOtherSaves == 1 \* saves by another session of the family

\* The rows of a tracker card and the columns each row edits.
RowFields(p, rowType) ==
    IF p = "car"
    THEN IF rowType = "oil" THEN {"last_oil_change", "next_oil_change_due"}
         ELSE IF rowType = "registration" THEN {"registration_due"}
         ELSE {"inspection_due"}
    ELSE IF rowType = "flu_shot" THEN {"flu_shot_last_date"}
         ELSE {"well_visit_last_date"}

RowTypes(p) ==
    IF p = "car" THEN {"oil", "registration", "inspection"} ELSE {"flu_shot", "well_visit"}

Columns(p) == UNION {RowFields(p, rowType) : rowType \in RowTypes(p)}

\* Column values: SQL null or a date; a form field holds '' or a date.
SqlNull == "null"
Dates == {"2025-03-01", "2025-09-01"}

\* formValue || null
OrNull(v) == IF v = "" THEN SqlNull ELSE v

\* carData?.field || ''
OrEmpty(record, column) ==
    IF record = NoRecord \/ record.data[column] = SqlNull THEN "" ELSE record.data[column]

\* (data || []).find(c => c.car_name === 'Mazda') || null
FirstRecord(rows) == IF rows = <<>> THEN NoRecord ELSE rows[1]

\* updateData of saveRow / saveEdit: the row's columns from the form, every
\* other column from the record the component holds, or null without one.
UpdateData(p, rowType, current) ==
    [c \in Columns(p) |->
        IF c \in RowFields(p, rowType) THEN OrNull(form[c])
        ELSE IF current = NoRecord THEN SqlNull
        ELSE current.data[c]]

\* .update(updateData).eq('id', id), or .insert(updateData).
Written(rows, current, data) ==
    IF current # NoRecord
    THEN [i \in DOMAIN rows |-> IF rows[i].id = current.id
                                THEN [id |-> rows[i].id, data |-> data]
                                ELSE rows[i]]
    ELSE Append(rows, [id |-> Len(rows) + 1, data |-> data])

trackerFrame == <<page, calVars, mealVars, viewVars, proxyVars, policyVars, selectVars,
                  loadVars, listVars, sportVars, setupVars>>

\* The mount effect: loadData.
LoadData ==
    /\ page # "none"
    /\ trackerLoading
    /\ loaded' = FirstRecord(table)
    /\ trackerLoading' = FALSE
    /\ UNCHANGED <<table, editingRow, form, otherSaves, trackerFrame>>

\* startEditRow / startEdit: the form takes the loaded values of the row.
StartEdit(rowType) ==
    /\ ~trackerLoading
    /\ editingRow = "none"
    /\ rowType \in RowTypes(page)
    /\ editingRow' = rowType
    /\ form' = [c \in RowFields(page, rowType) |-> OrEmpty(loaded, c)]
    /\ UNCHANGED <<table, loaded, trackerLoading, otherSaves, trackerFrame>>

\* A date typed or cleared in a field of the row being edited.
TypeDate(column, value) ==
    /\ editingRow # "none"
    /\ column \in DOMAIN form
    /\ form' = [form EXCEPT ![column] = value]
    /\ UNCHANGED <<table, loaded, trackerLoading, editingRow, otherSaves, trackerFrame>>

\* cancelEditRow / cancelEdit.
CancelEdit ==
    /\ editingRow # "none"
    /\ editingRow' = "none"
    /\ form' = <<>>
    /\ UNCHANGED <<table, loaded, trackerLoading, otherSaves, trackerFrame>>

\* The write, cancelEditRow / cancelEdit, and loadData.
Save ==
    /\ editingRow # "none"
    /\ table' = Written(table, loaded, UpdateData(page, editingRow, loaded))
    /\ editingRow' = "none"
    /\ form' = <<>>
    /\ loaded' = FirstRecord(table')
    /\ UNCHANGED <<trackerLoading, otherSaves, trackerFrame>>

\* Car: the Save button of a row.
saveRow ==
    /\ page = "car"
    /\ Save

\* Health: the Save button of a row.
saveEdit ==
    /\ page = "health"
    /\ Save

\* Someone else in the family saves one row from another device: the record
\* gets that row's new date.
OtherSessionSaves(rowType, value) ==
    /\ page # "none"
    /\ otherSaves < MaxOtherSaves
    /\ rowType \in RowTypes(page)
    /\ table # <<>>
    /\ table' = [table EXCEPT ![1].data =
                    [c \in Columns(page) |->
                        IF c \in RowFields(page, rowType) THEN value ELSE @[c]]]
    /\ otherSaves' = otherSaves + 1
    /\ UNCHANGED <<loaded, trackerLoading, editingRow, form, trackerFrame>>

\* A tracker page just mounted, over a table with no record yet or with one.
TrackerInit ==
    /\ page \in {"car", "health"}
    /\ table \in {<<>>} \cup
                 {<<[id |-> 1, data |-> [c \in Columns(page) |-> v]]>> :
                     v \in Dates \cup {SqlNull}}
    /\ loaded = NoRecord
    /\ trackerLoading = TRUE
    /\ editingRow = "none"
    /\ form = <<>>
    /\ otherSaves = 0
    /\ tz = -240
    /\ CalendarIdle
    /\ MealIdle
    /\ ViewsIdle
    /\ ProxyIdle
    /\ PolicyIdle
    /\ SelectIdle
    /\ LoadIdle
    /\ ListIdle
    /\ SportsIdle
    /\ SetupIdle

AllRowTypes == RowTypes("car") \cup RowTypes("health")
AllColumns == Columns("car") \cup Columns("health")

TrackerNext ==
    \/ LoadData
    \/ \E rowType \in AllRowTypes : StartEdit(rowType)
    \/ \E column \in AllColumns, value \in Dates \cup {""} : TypeDate(column, value)
    \/ CancelEdit
    \/ saveRow
    \/ saveEdit
    \/ \E rowType \in AllRowTypes, value \in Dates : OtherSessionSaves(rowType, value)

TrackerSpec == TrackerInit /\ [][TrackerNext]_vars

\* A save of the row being edited is the step that closes the row and
\* changes the table.
Saves(rowType) == editingRow = rowType /\ editingRow' = "none" /\ table' # table

(* C28: a save of one row leaves every column of the stored record outside  *)
(* that row as it was in the database just before the save, also when the  *)
(* record was changed by another save after the component loaded it.       *)
C28_SaveTouchesOnlyItsRow ==
    [][\A rowType \in AllRowTypes :
          (Saves(rowType) /\ table # <<>>)
              => \A c \in Columns(page) \ RowFields(page, rowType) :
                    table'[1].data[c] = table[1].data[c]]_vars

----------------------------------------------------------------------------
(* MealPlan: the feed-URL setup (src/src/components/MealPlan.tsx 20-135).   *)

MaxUrl == 3     \* longest text typed into the feed-URL field
MaxFetches == 2 \* loadMealEvents calls in flight at once

EnterUrlMessage == "Please enter a valid iCalendar feed URL"
FetchFailedMessage == "Failed to fetch meal plan"

\* What the field can hold: letters and blanks, in any order.
TypedUrls == UNION {[1..n -> {" ", "u"}] : n \in 0..MaxUrl}

Item(value) == [present |-> TRUE, value |-> value]

\* localStorage.getItem(key) is truthy.
HasSaved(item) == item.present /\ item.value # <<>>

\* An item the component itself has written.
SavedItems == {Item(trim(u)) : u \in {t \in TypedUrls : trim(t) # <<>>}}

\* Mutant of SavedValue: the text is stored as typed.
SavedValueAsTyped(url) == url

\* The value handleSaveFeedUrl stores and loads.
SavedValue(url) == trim(url)

\* loadMealEvents(url) up to its first await, on the loading, error and
\* in-flight state.
Started(st, url) ==
    IF trim(url) = <<>>
    THEN [st EXCEPT !.loading = FALSE]
    ELSE [loading |-> TRUE, error |-> "none", fetches |-> st.fetches + 1]

\* The effect on [selectedDate, feedUrl] after a render with a new feedUrl.
FeedUrlEffect(st, old, new) ==
    IF new # old /\ new # <<>> THEN Started(st, new) ELSE st

Loads == [loading |-> mealLoading, error |-> mealError, fetches |-> mealFetches]

SetLoads(st) ==
    /\ st.fetches <= MaxFetches
    /\ mealLoading' = st.loading
    /\ mealError' = st.error
    /\ mealFetches' = st.fetches

SetupView == isSettingUp
MealLoadingView == ~isSettingUp /\ mealLoading /\ mealEvents = <<>>
MealErrorView == ~isSettingUp /\ ~MealLoadingView /\ mealError # "none" /\ mealEvents = <<>>
MealMainView == ~isSettingUp /\ ~MealLoadingView /\ ~MealErrorView

setupFrame == <<calVars, mealVars, dashVars, feed, mealSelectedDate, mealLoaded,
                mealEventsByDay, proxyVars, policyVars, selectVars, loadVars, listVars,
                sportVars, trackerVars>>

\* The mount effect and the feedUrl effect of the commit it causes.
MountMealPlan ==
    /\ lastStep = "none"
    /\ lastStep' = "mount"
    /\ IF HasSaved(storedFeedUrl)
       THEN /\ feedUrl' = storedFeedUrl.value
            /\ isSettingUp' = isSettingUp
            /\ SetLoads(FeedUrlEffect(Started(Loads, storedFeedUrl.value),
                                      feedUrl, storedFeedUrl.value))
       ELSE /\ feedUrl' = feedUrl
            /\ isSettingUp' = TRUE
            /\ SetLoads(Loads)
    /\ UNCHANGED <<storedFeedUrl, mealEvents, setupFrame>>

\* onChange of the field: setFeedUrl, then the feedUrl effect.
TypeFeedUrl(value) ==
    /\ lastStep # "none"
    /\ SetupView
    /\ lastStep' = "type"
    /\ feedUrl' = value
    /\ SetLoads(FeedUrlEffect(Loads, feedUrl, value))
    /\ UNCHANGED <<storedFeedUrl, isSettingUp, mealEvents, setupFrame>>

handleSaveFeedUrl ==
    /\ lastStep # "none"
    /\ SetupView
    /\ lastStep' = "save"
    /\ IF trim(feedUrl) = <<>>
       THEN /\ mealError' = EnterUrlMessage
            /\ UNCHANGED <<storedFeedUrl, isSettingUp, mealLoading, mealFetches>>
       ELSE /\ storedFeedUrl' = Item(SavedValue(feedUrl))
            /\ isSettingUp' = FALSE
            /\ SetLoads(Started(Loads, trim(feedUrl)))
    /\ UNCHANGED <<feedUrl, mealEvents, setupFrame>>

handleEditFeedUrl ==
    /\ lastStep # "none"
    /\ MealMainView
    /\ lastStep' = "edit"
    /\ isSettingUp' = TRUE
    /\ mealError' = "none"
    /\ UNCHANGED <<storedFeedUrl, feedUrl, mealLoading, mealFetches, mealEvents, setupFrame>>

\* The Back button is rendered only while an item is stored.
handleBack ==
    /\ lastStep # "none"
    /\ SetupView
    /\ HasSaved(storedFeedUrl)
    /\ lastStep' = "back"
    /\ feedUrl' = storedFeedUrl.value
    /\ isSettingUp' = FALSE
    /\ SetLoads([FeedUrlEffect([Started(Loads, storedFeedUrl.value) EXCEPT !.error = "none"],
                               feedUrl, storedFeedUrl.value)
                    EXCEPT !.error = "none"])
    /\ UNCHANGED <<storedFeedUrl, mealEvents, setupFrame>>

\* "Change Feed URL" of the error view.
handleClearFeedUrl ==
    /\ lastStep # "none"
    /\ MealErrorView
    /\ lastStep' = "clear"
    /\ storedFeedUrl' = NoItem
    /\ feedUrl' = <<>>
    /\ mealEvents' = <<>>
    /\ isSettingUp' = TRUE
    /\ mealError' = "none"
    /\ UNCHANGED <<mealLoading, mealFetches, setupFrame>>

\* "Try Again" of the error view: loadMealEvents(feedUrl).
MealTryAgain ==
    /\ lastStep # "none"
    /\ MealErrorView
    /\ lastStep' = "retry"
    /\ SetLoads(Started(Loads, feedUrl))
    /\ UNCHANGED <<storedFeedUrl, feedUrl, isSettingUp, mealEvents, setupFrame>>

\* The ical-feed function answers one call: setEvents, or the catch.
MealFetchReturns(ok, answer) ==
    /\ mealFetches > 0
    /\ lastStep' = "returns"
    /\ mealFetches' = mealFetches - 1
    /\ mealLoading' = FALSE
    /\ IF ok
       THEN /\ mealEvents' = answer
            /\ mealError' = mealError
       ELSE /\ mealEvents' = mealEvents
            /\ mealError' = FetchFailedMessage
    /\ UNCHANGED <<storedFeedUrl, feedUrl, isSettingUp, setupFrame>>

FeedAnswers == {<<>>, <<Morning>>}

\* Before the component mounts: the key is absent, or holds what an earlier
\* visit saved.
SetupInit ==
    /\ storedFeedUrl \in {NoItem} \cup SavedItems
    /\ feedUrl = <<>>
    /\ isSettingUp = FALSE
    /\ mealError = "none"
    /\ mealLoading = FALSE
    /\ mealFetches = 0
    /\ lastStep = "none"
    /\ tz = -240
    /\ CalendarIdle
    /\ MealIdle
    /\ ViewsIdle
    /\ ProxyIdle
    /\ PolicyIdle
    /\ SelectIdle
    /\ LoadIdle
    /\ ListIdle
    /\ SportsIdle
    /\ TrackerIdle

SetupNext ==
    \/ MountMealPlan
    \/ \E value \in TypedUrls : TypeFeedUrl(value)
    \/ handleSaveFeedUrl
    \/ handleEditFeedUrl
    \/ handleBack
    \/ handleClearFeedUrl
    \/ MealTryAgain
    \/ \E ok \in BOOLEAN, answer \in FeedAnswers : MealFetchReturns(ok, answer)

SetupSpec == SetupInit /\ [][SetupNext]_vars

\* The stored item is absent, or a non-blank text without outer blanks.
StoredUrlTrimmed ==
    storedFeedUrl.present =>
        /\ trim(storedFeedUrl.value) # <<>>
        /\ trim(storedFeedUrl.value) = storedFeedUrl.value

\* After Back the field holds the stored URL and the setup screen is closed.
BackRestores ==
    lastStep = "back" =>
        /\ storedFeedUrl.present
        /\ feedUrl = storedFeedUrl.value
        /\ ~isSettingUp

\* After Clear nothing is stored, no event is held, and the setup screen shows.
ClearResets ==
    lastStep = "clear" =>
        /\ ~storedFeedUrl.present
        /\ mealEvents = <<>>
        /\ isSettingUp

\* A save of a blank field sets the error and leaves the stored item alone.
BlankSaveRejected ==
    (lastStep' = "save" /\ trim(feedUrl) = <<>>) =>
        /\ mealError' = EnterUrlMessage
        /\ storedFeedUrl' = storedFeedUrl
        /\ isSettingUp'

(* C29: whatever is typed and whichever of Save, Edit, Back and Clear run,  *)
(* the stored feed URL is absent or non-blank and trimmed; a blank save    *)
(* sets an error and stores nothing; Back puts the stored URL back into    *)
(* the field; Clear removes the item, empties the events and shows setup.  *)
C29_FeedUrlSetup ==
    /\ [](StoredUrlTrimmed /\ BackRestores /\ ClearResets)
    /\ [][BlankSaveRejected]_vars

\* A typed URL with outer blanks has just been saved: the stored text is
\* the trimmed one, not the text of the field.
C29_Witness ==
    /\ lastStep = "save"
    /\ storedFeedUrl.present
    /\ feedUrl # storedFeedUrl.value
    /\ trim(feedUrl) = storedFeedUrl.value

----------------------------------------------------------------------------
(* C30: for every title and description, also a title that is only a slot   *)
(* keyword with a colon and / or blanks, the name parseMeal returns is not  *)
(* the empty string.                                                        *)
C30_NameNeverEmpty ==
    parsed # NotParsed => parsed.result.name # <<>>

====
